---- MODULE Spec2Model ----
(***************************************************************************)
(* Fishing-log backend (Flask + SQLAlchemy): users, locations, fishing     *)
(* sessions and catches, with token authentication and owner-scoped CRUD.  *)
(*                                                                         *)
(* The persistent store is the four tables.  Every HTTP handler is a pure  *)
(* operator from the current store and the request (token, path id, JSON   *)
(* payload) to a result record                                             *)
(*    [status, raised, rollback, dirty, rows, body, db]                    *)
(* where db is the store the request leaves behind; the action of the      *)
(* handler installs that store.  Row timestamps (created_at, updated_at)   *)
(* are not modelled.                                                       *)
(***************************************************************************)
EXTENDS Integers, Sequences, FiniteSets, TLC

VARIABLES
    using_supabase,     \* main.py: TRUE = PostgreSQL (Supabase), FALSE = SQLite
    users,              \* table users:            id -> row
    locations,          \* table locations:        id -> row
    fishing_sessions,   \* table fishing_sessions: id -> row
    catches,            \* table catches:          id -> row
    issued,             \* how many ids generate_uuid has produced, per table
    inflight            \* the requests a worker is in the middle of handling

vars == <<using_supabase, users, locations, fishing_sessions, catches, issued, inflight>>

(***************************************************************************)
(* Bounds of the model: how many rows of each table are ever created.      *)
(***************************************************************************)
MaxUsers == 2
MaxLocations == 2
MaxSessions == 1
MaxCatches == 1
MaxStatsSessions == 2
MaxStatsCatches == 2
MaxRequests == 2

(***************************************************************************)
(* JSON values of a request payload.  A string is the tuple of its parts:  *)
(* "" is <<>>, "Lake1" is <<"Lake1">>, "22:00" is <<22, ":", 0>>,          *)
(* "2024-01-01" is <<2024, "-", 1, "-", 1>>, a uuid is <<"loc", 1>>.       *)
(***************************************************************************)
Null == [t |-> "null"]
Str(s) == [t |-> "str", s |-> s]
Num(n) == [t |-> "num", n |-> n]
Bool(b) == [t |-> "bool", b |-> b]

\* Python truthiness of a JSON value: None, "", 0 and False are falsy.
Truthy(v) ==
    CASE v.t = "null" -> FALSE
      [] v.t = "str"  -> v.s # <<>>
      [] v.t = "num"  -> v.n # 0
      [] v.t = "bool" -> v.b

\* `key in data`
Has(data, key) == key \in DOMAIN data

\* data.get(key): None when the key is absent
Get(data, key) == IF key \in DOMAIN data THEN data[key] ELSE Null

\* bool(value)
ToBool(v) == Truthy(v)

\* float(value): a number, a raised ValueError (text that spells no number:
\* the only text the model puts in a numeric field) or a raised TypeError (None).
ToFloat(v) ==
    CASE v.t = "num"  -> [ok |-> TRUE, val |-> v, raised |-> "none"]
      [] v.t = "bool" -> [ok |-> TRUE, val |-> Num(IF v.b THEN 1 ELSE 0), raised |-> "none"]
      [] v.t = "str"  -> [ok |-> FALSE, val |-> Null, raised |-> "ValueError"]
      [] v.t = "null" -> [ok |-> FALSE, val |-> Null, raised |-> "TypeError"]

(***************************************************************************)
(* datetime: dates, times, strptime, combine, timedelta(days=1).           *)
(***************************************************************************)
IsLeap(y) == (y % 4 = 0) /\ ((y % 100 # 0) \/ (y % 400 = 0))

DaysInMonth(y, m) ==
    CASE m \in {1, 3, 5, 7, 8, 10, 12} -> 31
      [] m \in {4, 6, 9, 11} -> 30
      [] m = 2 -> IF IsLeap(y) THEN 29 ELSE 28

\* datetime.strptime(text, '%Y-%m-%d').date()
ParseDate(v) ==
    IF /\ v.t = "str"
       /\ Len(v.s) = 5
       /\ v.s[2] = "-" /\ v.s[4] = "-"
       /\ v.s[1] \in 1..9999
       /\ v.s[3] \in 1..12
       /\ v.s[5] \in 1..DaysInMonth(v.s[1], v.s[3])
    THEN [ok |-> TRUE, raised |-> "none",
          val |-> [year |-> v.s[1], month |-> v.s[3], day |-> v.s[5]]]
    ELSE [ok |-> FALSE, val |-> Null,
          raised |-> IF v.t = "str" THEN "ValueError" ELSE "TypeError"]

\* datetime.strptime(text, '%H:%M').time()
ParseTime(v) ==
    IF /\ v.t = "str"
       /\ Len(v.s) = 3
       /\ v.s[2] = ":"
       /\ v.s[1] \in 0..23
       /\ v.s[3] \in 0..59
    THEN [ok |-> TRUE, raised |-> "none",
          val |-> [hour |-> v.s[1], minute |-> v.s[3]]]
    ELSE [ok |-> FALSE, val |-> Null,
          raised |-> IF v.t = "str" THEN "ValueError" ELSE "TypeError"]

\* date.toordinal(): days since 0001-01-01, that day being 1
DaysBeforeYear(y) ==
    (y - 1) * 365 + ((y - 1) \div 4) - ((y - 1) \div 100) + ((y - 1) \div 400)

RECURSIVE DaysBeforeMonth(_, _)
DaysBeforeMonth(y, m) ==
    IF m = 1 THEN 0 ELSE DaysBeforeMonth(y, m - 1) + DaysInMonth(y, m - 1)

ToOrdinal(d) == DaysBeforeYear(d.year) + DaysBeforeMonth(d.year, d.month) + d.day

\* date + timedelta(days=1): OverflowError past date.max (9999-12-31)
AddDay(d) ==
    IF d.day < DaysInMonth(d.year, d.month)
    THEN [ok |-> TRUE, val |-> [d EXCEPT !.day = d.day + 1]]
    ELSE IF d.month < 12
    THEN [ok |-> TRUE, val |-> [year |-> d.year, month |-> d.month + 1, day |-> 1]]
    ELSE IF d.year < 9999
    THEN [ok |-> TRUE, val |-> [year |-> d.year + 1, month |-> 1, day |-> 1]]
    ELSE [ok |-> FALSE, val |-> d]

\* datetime.combine(date, time): the day and the minute of that day
Combine(d, tm) == [day |-> ToOrdinal(d), minute |-> tm.hour * 60 + tm.minute]

\* a < b on datetimes
Before(a, b) == a.day < b.day \/ (a.day = b.day /\ a.minute < b.minute)

\* int((b - a).total_seconds() / 60) on datetimes of minute resolution
MinutesBetween(a, b) == (b.day - a.day) * 1440 + (b.minute - a.minute)

(***************************************************************************)
(* The store and the result of a request.                                  *)
(***************************************************************************)
db == [users |-> users, locations |-> locations,
       fishing_sessions |-> fishing_sessions, catches |-> catches,
       issued |-> issued]

\* generate_uuid(): a fresh id, never produced before, per table
generate_uuid(table) == <<table, issued[table] + 1>>

\* A response sent without touching the ORM session.
Reply(status, rows) ==
    [status |-> status, raised |-> "none", rollback |-> FALSE, dirty |-> FALSE,
     rows |-> rows, body |-> Null, db |-> db]

\* `except ValueError`: the handler answers 400 and returns; it does not call
\* db.session.rollback().  `dirty` tells whether the ORM session holds
\* uncommitted assignments at that point; they are discarded when the request's
\* scoped session is removed, so the store is the one before the request.
ValueErrorReply(dirty) ==
    [status |-> 400, raised |-> "ValueError", rollback |-> FALSE, dirty |-> dirty,
     rows |-> {}, body |-> Null, db |-> db]

\* `except Exception`: db.session.rollback(), then 500.
ExceptionReply(raised) ==
    [status |-> 500, raised |-> raised, rollback |-> TRUE, dirty |-> FALSE,
     rows |-> {}, body |-> Null, db |-> db]

\* db.session.commit() succeeded: `newdb` is the store, then the response.
Committed(status, rows, newdb) ==
    [status |-> status, raised |-> "none", rollback |-> FALSE, dirty |-> FALSE,
     rows |-> rows, body |-> Null, db |-> newdb]

\* The table `rows` with the row `id` removed.
Without(rows, id) == [i \in DOMAIN rows \ {id} |-> rows[i]]

\* The table `rows` with the row `id` added or replaced.
With(rows, id, row) == [i \in DOMAIN rows \cup {id} |-> IF i = id THEN row ELSE rows[i]]

(***************************************************************************)
(* routes/auth.py                                                          *)
(***************************************************************************)
\* A bearer token as the server sees it: absent, not decodable, decodable but
\* expired, or decodable and unexpired; a decodable token names a user id.
NoUser == <<>>
MissingToken == [kind |-> "missing", user_id |-> NoUser]
GarbageToken == [kind |-> "garbage", user_id |-> NoUser]
ExpiredToken(uid) == [kind |-> "expired", user_id |-> uid]
ValidToken(uid) == [kind |-> "valid", user_id |-> uid]

\* token_required without the expiry check: an expired token of an existing
\* user is accepted.
token_required_expired_ok(token) ==
    IF token.kind \in {"valid", "expired"} /\ token.user_id \in DOMAIN users
    THEN [ok |-> TRUE, current_user |-> token.user_id]
    ELSE [ok |-> FALSE, current_user |-> NoUser]

\* The decorator: the wrapped handler runs only with ok = TRUE, and then with
\* current_user the id of an existing user; otherwise the answer is 401.
token_required(token) ==
    IF token.kind = "missing" THEN [ok |-> FALSE, current_user |-> NoUser]
    ELSE IF token.kind = "garbage" THEN [ok |-> FALSE, current_user |-> NoUser]
    ELSE IF token.kind = "expired" THEN [ok |-> FALSE, current_user |-> NoUser]
    ELSE IF token.user_id \notin DOMAIN users THEN [ok |-> FALSE, current_user |-> NoUser]
    ELSE [ok |-> TRUE, current_user |-> token.user_id]

Unauthorized == Reply(401, {})

\* werkzeug generate_password_hash / check_password_hash
generate_password_hash(password) == <<"hash", password>>
check_password_hash(hash, password) == hash = <<"hash", password>>

register(data) ==
    IF ~Truthy(Get(data, "email")) THEN Reply(400, {})
    ELSE IF ~Truthy(Get(data, "username")) THEN Reply(400, {})
    ELSE IF ~Truthy(Get(data, "password")) THEN Reply(400, {})
    ELSE IF \E u \in DOMAIN users : users[u].email = data.email THEN Reply(400, {})
    ELSE IF \E u \in DOMAIN users : users[u].username = data.username THEN Reply(400, {})
    ELSE LET id == generate_uuid("users")
             user == [email |-> data.email, username |-> data.username,
                      password_hash |-> generate_password_hash(data.password)]
         IN Committed(201, {<<"users", id>>},
                [db EXCEPT !.users = With(users, id, user),
                           !.issued.users = issued.users + 1])

login(data) ==
    IF ~Truthy(Get(data, "email")) THEN Reply(400, {})
    ELSE IF ~Truthy(Get(data, "password")) THEN Reply(400, {})
    ELSE IF \E u \in DOMAIN users :
                /\ users[u].email = data.email
                /\ check_password_hash(users[u].password_hash, data.password)
         THEN Reply(200, {<<"users", u>> : u \in {x \in DOMAIN users : users[x].email = data.email}})
         ELSE Reply(401, {})

get_current_user(token) ==
    LET auth == token_required(token) IN
    IF ~auth.ok THEN Unauthorized
    ELSE Reply(200, {<<"users", auth.current_user>>})

change_password(token, data) ==
    LET auth == token_required(token)
        me == auth.current_user
    IN
    IF ~auth.ok THEN Unauthorized
    ELSE IF ~Truthy(Get(data, "current_password")) THEN Reply(400, {})
    ELSE IF ~Truthy(Get(data, "new_password")) THEN Reply(400, {})
    ELSE IF ~check_password_hash(users[me].password_hash, data.current_password)
         THEN Reply(401, {})
    ELSE Committed(200, {},
            [db EXCEPT !.users[me].password_hash = generate_password_hash(data.new_password)])

(***************************************************************************)
(* Helpers shared by the update handlers.                                  *)
(***************************************************************************)
\* `if key in data: obj.key = data[key]`, written as an unconditional
\* `obj.key = data.get(key)`: an absent key resets the field to None.
Assign_unconditional(obj, data, key) == [obj EXCEPT ![key] = Get(data, key)]

\* `if key in data: obj.key = data[key]`
Assign(obj, data, key) ==
    IF Has(data, key) THEN [obj EXCEPT ![key] = data[key]] ELSE obj

\* An exception raised inside the handler's try block: ValueError has its own
\* except clause (400, no rollback), everything else reaches `except Exception`.
Raise(raised, dirty) ==
    IF raised = "ValueError" THEN ValueErrorReply(dirty) ELSE ExceptionReply(raised)

(***************************************************************************)
(* routes/locations.py                                                     *)
(***************************************************************************)
\* Location.query.filter_by(id=location_id, user_id=current_user.id).first(),
\* with the user_id filter left out.
find_location_any_owner(me, location_id) ==
    IF location_id \in DOMAIN locations THEN {location_id} ELSE {}

\* Location.query.filter_by(id=location_id, user_id=current_user.id).first():
\* the set holding the id found, empty when there is none.
find_location(me, location_id) ==
    {l \in DOMAIN locations : l = location_id /\ locations[l].user_id = me}

\* Location.query.filter_by(user_id=current_user.id, name=name).first()
location_named(me, name) ==
    {l \in DOMAIN locations : locations[l].user_id = me /\ locations[l].name = name}

\* location.fishing_sessions: the sessions whose location_id is this location
sessions_of_location(location_id) ==
    {s \in DOMAIN fishing_sessions : fishing_sessions[s].location_id = Str(location_id)}

\* session.catches: the catches whose session_id is this session
catches_of_session(session_id) ==
    {c \in DOMAIN catches : catches[c].session_id = Str(session_id)}

\* The id a JSON value names: a text is the id it spells; anything else names
\* no row.
IdOf(v) == IF v.t = "str" THEN v.s ELSE <<>>

get_locations(token) ==
    LET auth == token_required(token)
        me == auth.current_user
    IN
    IF ~auth.ok THEN Unauthorized
    ELSE Reply(200, {<<"locations", l>> : l \in {x \in DOMAIN locations : locations[x].user_id = me}})

create_location(token, data) ==
    LET auth == token_required(token)
        me == auth.current_user
        lat == ToFloat(Get(data, "latitude"))
        lon == ToFloat(Get(data, "longitude"))
        id == generate_uuid("locations")
    IN
    IF ~auth.ok THEN Unauthorized
    ELSE IF ~Truthy(Get(data, "name")) THEN Reply(400, {})
    ELSE IF ~Truthy(Get(data, "latitude")) THEN Reply(400, {})
    ELSE IF ~Truthy(Get(data, "longitude")) THEN Reply(400, {})
    ELSE IF location_named(me, data.name) # {} THEN Reply(400, {})
    ELSE IF ~lat.ok THEN Raise(lat.raised, FALSE)
    ELSE IF ~lon.ok THEN Raise(lon.raised, FALSE)
    ELSE Committed(201, {<<"locations", id>>},
            [db EXCEPT !.locations = With(locations, id,
                            [user_id |-> me, name |-> data.name,
                             latitude |-> lat.val, longitude |-> lon.val,
                             description |-> Get(data, "description")]),
                       !.issued.locations = issued.locations + 1])

get_location(token, location_id) ==
    LET auth == token_required(token)
        me == auth.current_user
        found == find_location(me, location_id)
    IN
    IF ~auth.ok THEN Unauthorized
    ELSE IF found = {} THEN Reply(404, {})
    ELSE Reply(200, {<<"locations", location_id>>})

update_location(token, location_id, data) ==
    LET auth == token_required(token)
        me == auth.current_user
        found == find_location(me, location_id)
        location == locations[location_id]
        o1 == Assign(location, data, "name")
        lat == ToFloat(Get(data, "latitude"))
        o2 == IF Has(data, "latitude") /\ lat.ok THEN [o1 EXCEPT !.latitude = lat.val] ELSE o1
        lon == ToFloat(Get(data, "longitude"))
        o3 == IF Has(data, "longitude") /\ lon.ok THEN [o2 EXCEPT !.longitude = lon.val] ELSE o2
        o4 == Assign(o3, data, "description")
    IN
    IF ~auth.ok THEN Unauthorized
    ELSE IF found = {} THEN Reply(404, {})
    ELSE IF /\ Truthy(Get(data, "name"))
            /\ data.name # location.name
            /\ location_named(me, data.name) # {}
         THEN Reply(400, {})
    ELSE IF Has(data, "latitude") /\ ~lat.ok THEN Raise(lat.raised, o1 # location)
    ELSE IF Has(data, "longitude") /\ ~lon.ok THEN Raise(lon.raised, o2 # location)
    \* commit: locations.name is NOT NULL
    ELSE IF o4.name = Null THEN ExceptionReply("IntegrityError")
    ELSE Committed(200, {<<"locations", location_id>>},
            [db EXCEPT !.locations = With(locations, location_id, o4)])

\* create_location up to and including its query for a location of the same
\* name: TRUE when no check has answered the request.
create_location_checked(token, data) ==
    LET auth == token_required(token) IN
    /\ auth.ok
    /\ Truthy(Get(data, "name"))
    /\ Truthy(Get(data, "latitude"))
    /\ Truthy(Get(data, "longitude"))
    /\ location_named(auth.current_user, data.name) = {}

\* create_location from "Criar novo local" on: the row is built, added and
\* committed to the store as it is by then.
create_location_insert(me, data) ==
    LET lat == ToFloat(Get(data, "latitude"))
        lon == ToFloat(Get(data, "longitude"))
        id == generate_uuid("locations")
    IN
    IF ~lat.ok THEN Raise(lat.raised, FALSE)
    ELSE IF ~lon.ok THEN Raise(lon.raised, FALSE)
    ELSE Committed(201, {<<"locations", id>>},
            [db EXCEPT !.locations = With(locations, id,
                            [user_id |-> me, name |-> data.name,
                             latitude |-> lat.val, longitude |-> lon.val,
                             description |-> Get(data, "description")]),
                       !.issued.locations = issued.locations + 1])

\* update_location up to and including its query for another location of the
\* new name: TRUE when no check has answered the request.
update_location_checked(token, location_id, data) ==
    LET auth == token_required(token)
        me == auth.current_user
    IN
    /\ auth.ok
    /\ find_location(me, location_id) # {}
    /\ ~(/\ Truthy(Get(data, "name"))
         /\ data.name # locations[location_id].name
         /\ location_named(me, data.name) # {})

\* update_location from "Atualizar campos" on, `loaded` being the row as the
\* request read it: the assignments are made to the loaded object and the
\* commit writes the columns whose value they changed to the row as it is in
\* the store by then.
update_location_flush(location_id, loaded, data) ==
    LET o1 == Assign(loaded, data, "name")
        lat == ToFloat(Get(data, "latitude"))
        o2 == IF Has(data, "latitude") /\ lat.ok THEN [o1 EXCEPT !.latitude = lat.val] ELSE o1
        lon == ToFloat(Get(data, "longitude"))
        o3 == IF Has(data, "longitude") /\ lon.ok THEN [o2 EXCEPT !.longitude = lon.val] ELSE o2
        o4 == Assign(o3, data, "description")
        stored == locations[location_id]
        written == [f \in DOMAIN stored |-> IF o4[f] # loaded[f] THEN o4[f] ELSE stored[f]]
    IN
    IF Has(data, "latitude") /\ ~lat.ok THEN Raise(lat.raised, o1 # loaded)
    ELSE IF Has(data, "longitude") /\ ~lon.ok THEN Raise(lon.raised, o2 # loaded)
    ELSE IF o4.name = Null THEN ExceptionReply("IntegrityError")
    ELSE IF o4 # loaded /\ location_id \notin DOMAIN locations
         THEN ExceptionReply("StaleDataError")
    ELSE Committed(200, {<<"locations", location_id>>},
            IF o4 = loaded THEN db
            ELSE [db EXCEPT !.locations = With(locations, location_id, written)])

\* db.session.delete(location) with the guard on its sessions left out: the ORM
\* cascade (all, delete-orphan) removes the location's sessions and their catches.
remove_location_cascading(location_id) ==
    LET gone == sessions_of_location(location_id) IN
    [db EXCEPT !.locations = Without(locations, location_id),
               !.fishing_sessions = [s \in DOMAIN fishing_sessions \ gone |-> fishing_sessions[s]],
               !.catches = [c \in {x \in DOMAIN catches :
                                     \A s \in gone : catches[x].session_id # Str(s)}
                            |-> catches[c]]]

delete_location_unguarded(token, location_id) ==
    LET auth == token_required(token)
        me == auth.current_user
        found == find_location(me, location_id)
    IN
    IF ~auth.ok THEN Unauthorized
    ELSE IF found = {} THEN Reply(404, {})
    ELSE Committed(200, {}, remove_location_cascading(location_id))

\* delete_location with a guard that remembers: it refuses as soon as any
\* session has ever been created, whether or not one still names the location.
delete_location_remembering(token, location_id) ==
    LET auth == token_required(token)
        me == auth.current_user
        found == find_location(me, location_id)
    IN
    IF ~auth.ok THEN Unauthorized
    ELSE IF found = {} THEN Reply(404, {})
    ELSE IF issued.fishing_sessions > 0 THEN Reply(400, {})
    ELSE Committed(200, {}, [db EXCEPT !.locations = Without(locations, location_id)])

delete_location(token, location_id) ==
    LET auth == token_required(token)
        me == auth.current_user
        found == find_location(me, location_id)
    IN
    IF ~auth.ok THEN Unauthorized
    ELSE IF found = {} THEN Reply(404, {})
    ELSE IF sessions_of_location(location_id) # {} THEN Reply(400, {})
    ELSE Committed(200, {}, [db EXCEPT !.locations = Without(locations, location_id)])

(***************************************************************************)
(* routes/fishing_sessions.py                                              *)
(***************************************************************************)
\* FishingSession.query.filter_by(id=session_id, user_id=current_user.id)
\* with the user_id filter left out.
find_session_any_owner(me, session_id) ==
    IF session_id \in DOMAIN fishing_sessions THEN {session_id} ELSE {}

\* FishingSession.query.filter_by(id=session_id, user_id=current_user.id).first()
find_session(me, session_id) ==
    {s \in DOMAIN fishing_sessions : s = session_id /\ fishing_sessions[s].user_id = me}

\* The duration without the overnight rule: end - start, negative when the
\* session ends after midnight.
duration_same_day(date, start_time, end_time) ==
    [ok |-> TRUE, val |-> MinutesBetween(Combine(date, start_time), Combine(date, end_time))]

\* create_session, "Calcular duracao": minutes from start to end, the end moved
\* to the next day when it is earlier than the start.  ok = FALSE stands for the
\* OverflowError of date + timedelta(days=1).
create_duration(date, start_time, end_time) ==
    LET start_datetime == Combine(date, start_time)
        end_datetime == Combine(date, end_time)
        next == AddDay(date)
    IN
    IF Before(end_datetime, start_datetime)
    THEN IF next.ok
         THEN [ok |-> TRUE,
               val |-> MinutesBetween(start_datetime, Combine(next.val, end_time))]
         ELSE [ok |-> FALSE, val |-> 0]
    ELSE [ok |-> TRUE, val |-> MinutesBetween(start_datetime, end_datetime)]

\* update_session, "Recalcular duracao": the same computation on the session's
\* fields after the assignments.
update_duration(date, start_time, end_time) ==
    LET start_datetime == Combine(date, start_time)
        end_datetime == Combine(date, end_time)
        next == AddDay(date)
    IN
    IF Before(end_datetime, start_datetime)
    THEN IF next.ok
         THEN [ok |-> TRUE,
               val |-> MinutesBetween(start_datetime, Combine(next.val, end_time))]
         ELSE [ok |-> FALSE, val |-> 0]
    ELSE [ok |-> TRUE, val |-> MinutesBetween(start_datetime, end_datetime)]

\* FishingSession.calculate_duration (models/database.py): the same steps on
\* the row's own fields, in a module that imports datetime only.  The name
\* timedelta of the overnight branch is not bound there: evaluating it raises
\* NameError.  A row without a start or an end time gives None.
calculate_duration(self) ==
    LET start_datetime == Combine(self.date, self.start_time)
        end_datetime == Combine(self.date, self.end_time)
    IN
    IF self.start_time = Null \/ self.end_time = Null
    THEN [ok |-> TRUE, val |-> Null, raised |-> "none"]
    ELSE IF Before(end_datetime, start_datetime)
    THEN [ok |-> FALSE, val |-> Null, raised |-> "NameError"]
    ELSE [ok |-> TRUE, val |-> MinutesBetween(start_datetime, end_datetime), raised |-> "none"]

\* any(field in data for field in ['date', 'start_time', 'end_time'])
touches_duration(data) ==
    Has(data, "date") \/ Has(data, "start_time") \/ Has(data, "end_time")

\* What session.to_dict() discloses, in the store `d`: the session, the name of
\* its location and the number of its catches.
session_rows(d, session_id) ==
    LET s == d.fishing_sessions[session_id] IN
    {<<"fishing_sessions", session_id>>}
    \cup {<<"locations", l>> : l \in {x \in DOMAIN d.locations : s.location_id = Str(x)}}
    \cup {<<"catches", c>> : c \in {x \in DOMAIN d.catches : d.catches[x].session_id = Str(session_id)}}

\* commit of a fishing_sessions row: location_id is NOT NULL, and PostgreSQL
\* enforces the foreign key to locations.id (SQLite, as configured, does not).
session_commit_fails(d, s) ==
    \/ s.location_id = Null
    \/ using_supabase /\ IdOf(s.location_id) \notin DOMAIN d.locations

get_sessions(token, location_id) ==
    LET auth == token_required(token)
        me == auth.current_user
        mine == {s \in DOMAIN fishing_sessions : fishing_sessions[s].user_id = me}
        hits == IF Truthy(location_id)
                THEN {s \in mine : fishing_sessions[s].location_id = location_id}
                ELSE mine
    IN
    IF ~auth.ok THEN Unauthorized
    ELSE Reply(200, UNION {session_rows(db, s) : s \in hits})

create_session(token, data) ==
    LET auth == token_required(token)
        me == auth.current_user
        date == ParseDate(data.date)
        start_time == ParseTime(data.start_time)
        end_time == ParseTime(data.end_time)
        duration == create_duration(date.val, start_time.val, end_time.val)
        temperature == ToFloat(data.temperature_celsius)
        id == generate_uuid("fishing_sessions")
        session == [user_id |-> me,
                    location_id |-> data.location_id,
                    date |-> date.val,
                    start_time |-> start_time.val,
                    end_time |-> end_time.val,
                    duration_minutes |-> duration.val,
                    weather_conditions |-> Get(data, "weather_conditions"),
                    temperature_celsius |->
                        IF Truthy(Get(data, "temperature_celsius"))
                        THEN temperature.val ELSE Null,
                    notes |-> Get(data, "notes")]
        newdb == [db EXCEPT !.fishing_sessions = With(fishing_sessions, id, session),
                            !.issued.fishing_sessions = issued.fishing_sessions + 1]
    IN
    IF ~auth.ok THEN Unauthorized
    ELSE IF ~Truthy(Get(data, "location_id")) THEN Reply(400, {})
    ELSE IF ~Truthy(Get(data, "date")) THEN Reply(400, {})
    ELSE IF ~Truthy(Get(data, "start_time")) THEN Reply(400, {})
    ELSE IF ~Truthy(Get(data, "end_time")) THEN Reply(400, {})
    ELSE IF find_location(me, IdOf(data.location_id)) = {} THEN Reply(404, {})
    ELSE IF ~date.ok THEN Raise(date.raised, FALSE)
    ELSE IF ~start_time.ok THEN Raise(start_time.raised, FALSE)
    ELSE IF ~end_time.ok THEN Raise(end_time.raised, FALSE)
    ELSE IF ~duration.ok THEN ExceptionReply("OverflowError")
    ELSE IF Truthy(Get(data, "temperature_celsius")) /\ ~temperature.ok
         THEN Raise(temperature.raised, FALSE)
    ELSE Committed(201, session_rows(newdb, id), newdb)

get_session(token, session_id) ==
    LET auth == token_required(token)
        me == auth.current_user
    IN
    IF ~auth.ok THEN Unauthorized
    ELSE IF find_session(me, session_id) = {} THEN Reply(404, {})
    ELSE Reply(200, session_rows(db, session_id))

\* "Recalcular duracao se data/hora foram alteradas", left out: the stored
\* duration stays what it was whatever the payload assigns.
recompute_stale(session, data) == [ok |-> TRUE, val |-> session]

\* "Recalcular duracao se data/hora foram alteradas", written so that an update
\* touching none of the three fields clears the stored duration.
recompute_or_clear(session, data) ==
    IF touches_duration(data)
    THEN LET d == update_duration(session.date, session.start_time, session.end_time)
         IN [ok |-> d.ok, val |-> [session EXCEPT !.duration_minutes = d.val]]
    ELSE [ok |-> TRUE, val |-> [session EXCEPT !.duration_minutes = 0]]

\* "Recalcular duracao se data/hora foram alteradas": the session after the
\* recomputation, ok = FALSE when it raised.
recompute(session, data) ==
    IF touches_duration(data)
    THEN LET d == update_duration(session.date, session.start_time, session.end_time)
         IN [ok |-> d.ok, val |-> [session EXCEPT !.duration_minutes = d.val]]
    ELSE [ok |-> TRUE, val |-> session]

update_session(token, session_id, data) ==
    LET auth == token_required(token)
        me == auth.current_user
        session == fishing_sessions[session_id]
        o1 == Assign(session, data, "location_id")
        date == ParseDate(Get(data, "date"))
        o2 == IF Has(data, "date") /\ date.ok THEN [o1 EXCEPT !.date = date.val] ELSE o1
        start_time == ParseTime(Get(data, "start_time"))
        o3 == IF Has(data, "start_time") /\ start_time.ok
              THEN [o2 EXCEPT !.start_time = start_time.val] ELSE o2
        end_time == ParseTime(Get(data, "end_time"))
        o4 == IF Has(data, "end_time") /\ end_time.ok
              THEN [o3 EXCEPT !.end_time = end_time.val] ELSE o3
        o5 == Assign(o4, data, "weather_conditions")
        temperature == ToFloat(Get(data, "temperature_celsius"))
        o6 == IF ~Has(data, "temperature_celsius") THEN o5
              ELSE IF ~Truthy(data.temperature_celsius)
              THEN [o5 EXCEPT !.temperature_celsius = Null]
              ELSE [o5 EXCEPT !.temperature_celsius = temperature.val]
        o7 == Assign(o6, data, "notes")
        o8 == recompute(o7, data)
        newdb == [db EXCEPT !.fishing_sessions = With(fishing_sessions, session_id, o8.val)]
    IN
    IF ~auth.ok THEN Unauthorized
    ELSE IF find_session(me, session_id) = {} THEN Reply(404, {})
    ELSE IF /\ Truthy(Get(data, "location_id"))
            /\ data.location_id # session.location_id
            /\ find_location(me, IdOf(data.location_id)) = {}
         THEN Reply(404, {})
    ELSE IF Has(data, "date") /\ ~date.ok THEN Raise(date.raised, o1 # session)
    ELSE IF Has(data, "start_time") /\ ~start_time.ok THEN Raise(start_time.raised, o2 # session)
    ELSE IF Has(data, "end_time") /\ ~end_time.ok THEN Raise(end_time.raised, o3 # session)
    ELSE IF /\ Has(data, "temperature_celsius") /\ Truthy(data.temperature_celsius)
            /\ ~temperature.ok
         THEN Raise(temperature.raised, o5 # session)
    ELSE IF ~o8.ok THEN ExceptionReply("OverflowError")
    ELSE IF session_commit_fails(db, o8.val) THEN ExceptionReply("IntegrityError")
    ELSE Committed(200, session_rows(newdb, session_id), newdb)

delete_session(token, session_id) ==
    LET auth == token_required(token)
        me == auth.current_user
        session == fishing_sessions[session_id]
        gone == catches_of_session(session_id)
    IN
    IF ~auth.ok THEN Unauthorized
    ELSE IF find_session(me, session_id) = {} THEN Reply(404, {})
    \* session.location.name: AttributeError when the location is missing
    ELSE IF IdOf(session.location_id) \notin DOMAIN locations
         THEN ExceptionReply("AttributeError")
    ELSE Committed(200, {},
            [db EXCEPT !.fishing_sessions = Without(fishing_sessions, session_id),
                       !.catches = [c \in DOMAIN catches \ gone |-> catches[c]]])

(***************************************************************************)
(* routes/catches.py                                                       *)
(***************************************************************************)
\* db.session.query(Catch).join(FishingSession).filter(Catch.id == catch_id,
\* FishingSession.user_id == current_user.id) with the user filter left out.
find_catch_any_owner(me, catch_id) ==
    IF catch_id \in DOMAIN catches THEN {catch_id} ELSE {}

\* db.session.query(Catch).join(FishingSession).filter(Catch.id == catch_id,
\*     FishingSession.user_id == current_user.id).first()
find_catch(me, catch_id) ==
    {c \in DOMAIN catches :
        /\ c = catch_id
        /\ \E s \in DOMAIN fishing_sessions :
              catches[c].session_id = Str(s) /\ fishing_sessions[s].user_id = me}

\* db.session.query(Catch).join(FishingSession).filter(
\*     FishingSession.user_id == current_user.id)
catches_of_user(me) ==
    {c \in DOMAIN catches :
        \E s \in DOMAIN fishing_sessions :
            catches[c].session_id = Str(s) /\ fishing_sessions[s].user_id = me}

\* commit of a catches row: session_id and species are NOT NULL, and PostgreSQL
\* enforces the foreign key to fishing_sessions.id (SQLite does not).
catch_commit_fails(d, c) ==
    \/ c.session_id = Null
    \/ c.species = Null
    \/ using_supabase /\ IdOf(c.session_id) \notin DOMAIN d.fishing_sessions

\* `float(x) if x else None` for an optional numeric field
OptFloat(v) ==
    IF Truthy(v) THEN ToFloat(v) ELSE [ok |-> TRUE, val |-> Null, raised |-> "none"]

get_catches(token, session_id) ==
    LET auth == token_required(token)
        me == auth.current_user
        hits == IF Truthy(session_id)
                THEN {c \in catches_of_user(me) : catches[c].session_id = session_id}
                ELSE catches_of_user(me)
    IN
    IF ~auth.ok THEN Unauthorized
    ELSE Reply(200, {<<"catches", c>> : c \in hits})

create_catch(token, data) ==
    LET auth == token_required(token)
        me == auth.current_user
        weight_kg == OptFloat(Get(data, "weight_kg"))
        length_cm == OptFloat(Get(data, "length_cm"))
        id == generate_uuid("catches")
        catch == [session_id |-> data.session_id,
                  species |-> data.species,
                  weight_kg |-> weight_kg.val,
                  length_cm |-> length_cm.val,
                  bait_used |-> Get(data, "bait_used"),
                  released |-> ToBool(Get(data, "released")),
                  photo_url |-> Get(data, "photo_url")]
    IN
    IF ~auth.ok THEN Unauthorized
    ELSE IF ~Truthy(Get(data, "session_id")) THEN Reply(400, {})
    ELSE IF ~Truthy(Get(data, "species")) THEN Reply(400, {})
    ELSE IF find_session(me, IdOf(data.session_id)) = {} THEN Reply(404, {})
    ELSE IF ~weight_kg.ok THEN Raise(weight_kg.raised, FALSE)
    ELSE IF ~length_cm.ok THEN Raise(length_cm.raised, FALSE)
    ELSE Committed(201, {<<"catches", id>>},
            [db EXCEPT !.catches = With(catches, id, catch),
                       !.issued.catches = issued.catches + 1])

get_catch(token, catch_id) ==
    LET auth == token_required(token)
        me == auth.current_user
    IN
    IF ~auth.ok THEN Unauthorized
    ELSE IF find_catch(me, catch_id) = {} THEN Reply(404, {})
    ELSE Reply(200, {<<"catches", catch_id>>})

update_catch(token, catch_id, data) ==
    LET auth == token_required(token)
        me == auth.current_user
        catch == catches[catch_id]
        o1 == Assign(catch, data, "session_id")
        o2 == Assign(o1, data, "species")
        weight_kg == OptFloat(Get(data, "weight_kg"))
        o3 == IF Has(data, "weight_kg") /\ weight_kg.ok
              THEN [o2 EXCEPT !.weight_kg = weight_kg.val] ELSE o2
        length_cm == OptFloat(Get(data, "length_cm"))
        o4 == IF Has(data, "length_cm") /\ length_cm.ok
              THEN [o3 EXCEPT !.length_cm = length_cm.val] ELSE o3
        o5 == Assign(o4, data, "bait_used")
        o6 == IF Has(data, "released")
              THEN [o5 EXCEPT !.released = ToBool(data.released)] ELSE o5
        o7 == Assign(o6, data, "photo_url")
    IN
    IF ~auth.ok THEN Unauthorized
    ELSE IF find_catch(me, catch_id) = {} THEN Reply(404, {})
    ELSE IF /\ Truthy(Get(data, "session_id"))
            /\ data.session_id # catch.session_id
            /\ find_session(me, IdOf(data.session_id)) = {}
         THEN Reply(404, {})
    ELSE IF Has(data, "weight_kg") /\ ~weight_kg.ok THEN Raise(weight_kg.raised, o2 # catch)
    ELSE IF Has(data, "length_cm") /\ ~length_cm.ok THEN Raise(length_cm.raised, o3 # catch)
    ELSE IF catch_commit_fails(db, o7) THEN ExceptionReply("IntegrityError")
    ELSE Committed(200, {<<"catches", catch_id>>},
            [db EXCEPT !.catches = With(catches, catch_id, o7)])

delete_catch(token, catch_id) ==
    LET auth == token_required(token)
        me == auth.current_user
    IN
    IF ~auth.ok THEN Unauthorized
    ELSE IF find_catch(me, catch_id) = {} THEN Reply(404, {})
    ELSE Committed(200, {}, [db EXCEPT !.catches = Without(catches, catch_id)])

get_catches_by_session(token, session_id) ==
    LET auth == token_required(token)
        me == auth.current_user
        session == fishing_sessions[session_id]
    IN
    IF ~auth.ok THEN Unauthorized
    ELSE IF find_session(me, session_id) = {} THEN Reply(404, {})
    \* session.location.name: AttributeError when the location is missing
    ELSE IF IdOf(session.location_id) \notin DOMAIN locations
         THEN [ExceptionReply("AttributeError") EXCEPT !.rollback = FALSE]
    ELSE Reply(200, session_rows(db, session_id))

(***************************************************************************)
(* routes/stats.py                                                         *)
(***************************************************************************)
RECURSIVE SumOver(_, _)
\* func.sum over a set of rows: f is the table restricted to the summed column
SumOver(f, ids) ==
    IF ids = {} THEN 0
    ELSE LET i == CHOOSE x \in ids : TRUE IN f[i] + SumOver(f, ids \ {i})

\* `except Exception` of the statistics handlers: 500, and no rollback call
\* (nothing was written).
StatsError(raised) ==
    [status |-> 500, raised |-> raised, rollback |-> FALSE, dirty |-> FALSE,
     rows |-> {}, body |-> Null, db |-> db]

\* round(total_minutes / 60, 1), in tenths of an hour.  The quotient is exact
\* when the minutes are a multiple of 6; a half is rounded to the even tenth.
HoursTenths(total_minutes) ==
    LET q == total_minutes \div 6
        r == total_minutes % 6
    IN IF r < 3 THEN q
       ELSE IF r > 3 THEN q + 1
       ELSE IF q % 2 = 0 THEN q ELSE q + 1

\* FishingSession.query.filter_by(user_id=...): the sessions of the user
sessions_of_user(me) == {s \in DOMAIN fishing_sessions : fishing_sessions[s].user_id = me}

\* desc(FishingSession.date), desc(FishingSession.start_time): a sorts before b
SortsBefore(a, b) ==
    \/ ToOrdinal(a.date) > ToOrdinal(b.date)
    \/ /\ a.date = b.date
       /\ a.start_time.hour * 60 + a.start_time.minute
            > b.start_time.hour * 60 + b.start_time.minute

\* .order_by(...).first(): the rows the database may return as the user's last
\* session (any of those tied for the latest date and start time), NoUser
\* standing for None.
last_session_choices(me) ==
    LET mine == sessions_of_user(me)
        latest == {s \in mine :
                    \A o \in mine : ~SortsBefore(fishing_sessions[o], fishing_sessions[s])}
    IN IF mine = {} THEN {NoUser} ELSE latest

\* get_overview_stats, `last` being the row .first() returned (weights in the
\* unit of the stored numbers, total_hours in tenths of an hour).
get_overview_stats(token, last) ==
    LET auth == token_required(token)
        me == auth.current_user
        my_sessions == sessions_of_user(me)
        my_locations == {l \in DOMAIN locations : locations[l].user_id = me}
        my_catches == catches_of_user(me)
        total_sessions == Cardinality(my_sessions)
        total_catches == Cardinality(my_catches)
        total_locations == Cardinality(my_locations)
        released_count == Cardinality({c \in my_catches : catches[c].released})
        weighed == {c \in my_catches : catches[c].weight_kg # Null}
        total_minutes == SumOver([s \in my_sessions |-> fishing_sessions[s].duration_minutes],
                                 my_sessions)
        last_location == IdOf(fishing_sessions[last].location_id)
    IN
    IF ~auth.ok THEN Unauthorized
    \* last_session.location.name with last_session.location None
    ELSE IF last # NoUser /\ last_location \notin DOMAIN locations
         THEN StatsError("AttributeError")
    ELSE [Reply(200, {<<"fishing_sessions", s>> : s \in my_sessions}
                     \cup {<<"locations", l>> : l \in my_locations}
                     \cup {<<"catches", c>> : c \in my_catches})
          EXCEPT !.body =
            [total_sessions |-> total_sessions,
             total_catches |-> total_catches,
             total_locations |-> total_locations,
             released_count |-> released_count,
             kept_count |-> total_catches - released_count,
             total_weight_kg |-> SumOver([c \in weighed |-> catches[c].weight_kg.n], weighed),
             total_minutes |-> total_minutes,
             total_hours |-> IF total_minutes > 0 THEN HoursTenths(total_minutes) ELSE 0,
             last_session_date |->
                IF last # NoUser THEN fishing_sessions[last].date ELSE Null,
             last_session_location |->
                IF last # NoUser THEN locations[last_location].name ELSE Null]]

\* func.avg(Catch.weight_kg) over the catches `cs`, then
\* `round(avg, 2) if avg else None`: the average as the pair it is the quotient
\* of, None when no catch has a weight or the average is 0.
AvgWeight(cs) ==
    LET weighed == {c \in cs : catches[c].weight_kg # Null}
        total == SumOver([c \in weighed |-> catches[c].weight_kg.n], weighed)
    IN IF weighed = {} \/ total = 0 THEN Null
       ELSE [sum |-> total, of |-> Cardinality(weighed)]

\* func.count(func.nullif(Catch.released, False))
ReleasedCount(cs) == Cardinality({c \in cs : catches[c].released})

\* The bait query with the filter on FishingSession.user_id left out.
bait_rows_all_users(me) ==
    LET mine == {c \in DOMAIN catches :
                    /\ \E s \in DOMAIN fishing_sessions : catches[c].session_id = Str(s)
                    /\ catches[c].bait_used # Null /\ catches[c].bait_used # Str(<<>>)}
    IN {[bait |-> b,
         count |-> Cardinality({c \in mine : catches[c].bait_used = b}),
         avg_weight |-> AvgWeight({c \in mine : catches[c].bait_used = b}),
         released_count |-> ReleasedCount({c \in mine : catches[c].bait_used = b})] :
            b \in {catches[c].bait_used : c \in mine}}

\* The bait query: the user's catches with a bait that is neither NULL nor '',
\* grouped by bait.
bait_rows(me) ==
    LET mine == {c \in catches_of_user(me) :
                    catches[c].bait_used # Null /\ catches[c].bait_used # Str(<<>>)}
    IN {[bait |-> b,
         count |-> Cardinality({c \in mine : catches[c].bait_used = b}),
         avg_weight |-> AvgWeight({c \in mine : catches[c].bait_used = b}),
         released_count |-> ReleasedCount({c \in mine : catches[c].bait_used = b})] :
            b \in {catches[c].bait_used : c \in mine}}

\* round(count / total_catches * 100, 1) if total_catches > 0 else 0, in tenths
\* of a percent (rounded to the nearest tenth).
SuccessRate(count, total_catches) ==
    IF total_catches > 0 THEN (count * 2000 + total_catches) \div (2 * total_catches) ELSE 0

\* get_bait_stats.  The loop that builds baits_data reads total_catches, a local
\* variable assigned only after the loop: its first iteration raises
\* UnboundLocalError.  With no row to iterate over (no bait row, or limit 0)
\* the list stays empty, total_catches is counted and the second loop has
\* nothing to recompute.
get_bait_stats(token, limit) ==
    LET auth == token_required(token)
        me == auth.current_user
        bait_stats == IF limit > 0 THEN bait_rows(me) ELSE {}
        total_catches == Cardinality(catches_of_user(me))
        baits_data == {[bait |-> r.bait, count |-> r.count, avg_weight_kg |-> r.avg_weight,
                        released_count |-> r.released_count,
                        kept_count |-> r.count - r.released_count,
                        success_rate |-> SuccessRate(r.count, total_catches)] : r \in {}}
    IN
    IF ~auth.ok THEN Unauthorized
    ELSE IF bait_stats # {} THEN StatsError("UnboundLocalError")
    ELSE [Reply(200, {}) EXCEPT !.body = [bait_stats |-> baits_data]]

\* The rows of Location outerjoin FishingSession outerjoin Catch for one
\* location: one per catch of each session, one for a session without catches.
JoinedRows(session_id) ==
    IF catches_of_session(session_id) = {} THEN 1
    ELSE Cardinality(catches_of_session(session_id))

\* get_location_stats: one entry per location of the user, the aggregates
\* taken over the joined rows (the list is ordered by sessions_count,
\* descending; the entries are given here as a set).
get_location_stats(token) ==
    LET auth == token_required(token)
        me == auth.current_user
        my_locations == {l \in DOMAIN locations : locations[l].user_id = me}
        entry(l) ==
            LET ss == sessions_of_location(l)
                cs == UNION {catches_of_session(x) : x \in ss}
                total_minutes == SumOver([x \in ss |->
                                    fishing_sessions[x].duration_minutes * JoinedRows(x)], ss)
            IN [location_id |-> l,
                location_name |-> locations[l].name,
                sessions_count |-> SumOver([x \in ss |-> JoinedRows(x)], ss),
                catches_count |-> Cardinality(cs),
                total_minutes |-> total_minutes,
                total_hours |-> IF total_minutes # 0 THEN HoursTenths(total_minutes) ELSE 0,
                avg_weight_kg |-> AvgWeight(cs)]
    IN
    IF ~auth.ok THEN Unauthorized
    ELSE [Reply(200, {<<"locations", l>> : l \in my_locations})
          EXCEPT !.body = [location_stats |-> {entry(l) : l \in my_locations}]]

\* month.strftime('%Y-%m') of a date's month (years of four digits).
MonthStr(d) ==
    <<d.year \div 1000, (d.year \div 100) % 10, (d.year \div 10) % 10, d.year % 10, "-",
      d.month \div 10, d.month % 10>>

\* a < b for two '%Y-%m' strings, character by character.
MonthStrLess(a, b) ==
    \E i \in {1, 2, 3, 4, 6, 7} :
        /\ a[i] < b[i]
        /\ \A j \in {1, 2, 3, 4, 6, 7} : j < i => a[j] = b[j]

\* monthly_list.sort(key=lambda x: x['month'])
RECURSIVE SortedByMonth(_)
SortedByMonth(entries) ==
    IF entries = {} THEN <<>>
    ELSE LET first == CHOOSE e \in entries :
                        \A o \in entries : ~MonthStrLess(o.month, e.month)
         IN <<first>> \o SortedByMonth(entries \ {first})

\* get_monthly_stats, `today` being datetime.now().date().  Both queries
\* call date_trunc, which SQLite does not have: there the first query raises
\* OperationalError.  The filter is a lower bound on the session's date only.
get_monthly_stats(token, today) ==
    LET auth == token_required(token)
        me == auth.current_user
        twelve_months_ago == ToOrdinal(today) - 365
        recent == {x \in sessions_of_user(me) :
                      ToOrdinal(fishing_sessions[x].date) >= twelve_months_ago}
        months == {MonthStr(fishing_sessions[x].date) : x \in recent}
        entry(month_str) ==
            LET ss == {x \in recent : MonthStr(fishing_sessions[x].date) = month_str}
                cs == UNION {catches_of_session(x) : x \in ss}
                weighed == {c \in cs : catches[c].weight_kg # Null}
                total_minutes == SumOver([x \in ss |-> fishing_sessions[x].duration_minutes], ss)
            IN [month |-> month_str,
                sessions_count |-> Cardinality(ss),
                total_minutes |-> total_minutes,
                total_hours |-> IF total_minutes # 0 THEN HoursTenths(total_minutes) ELSE 0,
                catches_count |-> Cardinality(cs),
                total_weight_kg |-> SumOver([c \in weighed |-> catches[c].weight_kg.n], weighed)]
    IN
    IF ~auth.ok THEN Unauthorized
    ELSE IF ~using_supabase THEN StatsError("OperationalError")
    ELSE [Reply(200, {<<"fishing_sessions", x>> : x \in recent}
                     \cup {<<"catches", c>> : c \in UNION {catches_of_session(x) : x \in recent}})
          EXCEPT !.body = [monthly_stats |-> SortedByMonth({entry(m) : m \in months})]]

(***************************************************************************)
(* models/database.py: deleting a User row through the ORM.  The            *)
(* relationships cascade (all, delete-orphan): the user's locations and     *)
(* sessions go, and with each session its catches.                          *)
(***************************************************************************)
\* db.session.delete(user) with the relationships declared without a cascade:
\* only the users row goes.
remove_user_only(user_id) == [db EXCEPT !.users = Without(users, user_id)]

remove_user(user_id) ==
    LET gone_locations == {l \in DOMAIN locations : locations[l].user_id = user_id}
        gone_sessions == {s \in DOMAIN fishing_sessions :
                            \/ fishing_sessions[s].user_id = user_id
                            \/ IdOf(fishing_sessions[s].location_id) \in gone_locations}
        gone_catches == {c \in DOMAIN catches : IdOf(catches[c].session_id) \in gone_sessions}
    IN
    [db EXCEPT !.users = Without(users, user_id),
               !.locations = [l \in DOMAIN locations \ gone_locations |-> locations[l]],
               !.fishing_sessions = [s \in DOMAIN fishing_sessions \ gone_sessions
                                     |-> fishing_sessions[s]],
               !.catches = [c \in DOMAIN catches \ gone_catches |-> catches[c]]]

(***************************************************************************)
(* Requests: the inputs the handlers are driven with.                      *)
(***************************************************************************)
IssuedUsers == {<<"users", n>> : n \in 1..issued.users}
LocationIds == {<<"locations", n>> : n \in 1..MaxLocations}
SessionIds == {<<"fishing_sessions", n>> : n \in 1..MaxSessions}
CatchIds == {<<"catches", n>> : n \in 1..MaxCatches}

\* The unexpired tokens of the users that registered.
GoodTokens == {ValidToken(u) : u \in IssuedUsers}

Text(word) == Str(<<word>>)
Empty == Str(<<>>)
DateText(y, m, d) == Str(<<y, "-", m, "-", d>>)
TimeText(h, m) == Str(<<h, ":", m>>)

RegisterPayloads ==
    {[email |-> Text(n), username |-> Text(n), password |-> Text("pw123")] : n \in {"a", "b"}}
    \cup {[username |-> Text("a"), password |-> Text("pw123")]}

LoginPayloads ==
    {[email |-> Text("a"), password |-> Text(p)] : p \in {"pw123", "pw456"}}

PasswordPayloads ==
    {[current_password |-> Text("pw123"), new_password |-> Text("pw456")],
     [current_password |-> Text("pw123")]}

LocationCreatePayloads ==
    {[name |-> Text("Lake1"), latitude |-> Num(1), longitude |-> Num(2)],
     [name |-> Text("Lake2"), latitude |-> Num(1), longitude |-> Num(2),
      description |-> Text("deep")],
     [name |-> Text("Lake1"), latitude |-> Text("north"), longitude |-> Num(2)],
     [latitude |-> Num(1), longitude |-> Num(2)]}

LocationUpdatePayloads ==
    {[name |-> Text("Lake2")],
     [description |-> Null],
     [name |-> Text("Lake2"), latitude |-> Text("north")],
     [name |-> Null]}

\* Session payloads of the whole-API specification: one valid date and one
\* overnight pair of times on create.
SessionCreatePayloads ==
    {[location_id |-> Str(l), date |-> DateText(2024, 1, 1),
      start_time |-> TimeText(22, 0), end_time |-> TimeText(2, 0)] : l \in LocationIds}
    \cup {[location_id |-> Str(l), start_time |-> TimeText(22, 0), end_time |-> TimeText(2, 0)] :
            l \in LocationIds}
    \cup {[location_id |-> Str(l), date |-> Text("tomorrow"),
           start_time |-> TimeText(22, 0), end_time |-> TimeText(2, 0)] : l \in LocationIds}

SessionUpdatePayloads ==
    {[notes |-> Text("windy")],
     [location_id |-> Empty],
     [location_id |-> Null],
     [end_time |-> TimeText(23, 30)],
     [end_time |-> Text("late")]}
    \cup {[location_id |-> Str(l)] : l \in LocationIds}
    \cup {[location_id |-> Str(l), date |-> Text("tomorrow")] : l \in LocationIds}

CatchCreatePayloads ==
    {[session_id |-> Str(s), species |-> Text("Bass"), weight_kg |-> Num(2),
      released |-> Bool(FALSE)] : s \in SessionIds}
    \cup {[session_id |-> Str(s)] : s \in SessionIds}
    \cup {[session_id |-> Str(s), species |-> Text("Bass"), weight_kg |-> Text("heavy")] :
            s \in SessionIds}

CatchUpdatePayloads ==
    {[species |-> Text("Carp")],
     [session_id |-> Empty],
     [session_id |-> Null],
     [species |-> Text("Carp"), weight_kg |-> Text("heavy")]}
    \cup {[session_id |-> Str(s)] : s \in SessionIds}

(***************************************************************************)
(* The state machine.                                                      *)
(***************************************************************************)
NoRows == [i \in {} |-> Null]

\* The requests that can be under way at the same time, and a worker that
\* handles none.
Requests == 1..MaxRequests
Idle == [op |-> "none"]

Init ==
    /\ using_supabase \in BOOLEAN
    /\ users = NoRows
    /\ locations = NoRows
    /\ fishing_sessions = NoRows
    /\ catches = NoRows
    /\ issued = [users |-> 0, locations |-> 0, fishing_sessions |-> 0, catches |-> 0]
    /\ inflight = [r \in Requests |-> Idle]

\* The store after the request; a create is taken only while the model's bound
\* on the table's ids is not exhausted.
Install(res) ==
    /\ res.db.issued.users <= MaxUsers
    /\ res.db.issued.locations <= MaxLocations
    /\ res.db.issued.fishing_sessions <= MaxSessions
    /\ res.db.issued.catches <= MaxCatches
    /\ users' = res.db.users
    /\ locations' = res.db.locations
    /\ fishing_sessions' = res.db.fishing_sessions
    /\ catches' = res.db.catches
    /\ issued' = res.db.issued
    /\ UNCHANGED <<using_supabase, inflight>>

\* One action per handler; T is the set of tokens and P the set of payloads the
\* specification drives it with.
Register(P) == \E data \in P : Install(register(data))
Login(P) == \E data \in P : Install(login(data))
GetCurrentUser(T) == \E t \in T : Install(get_current_user(t))
ChangePassword(T, P) == \E t \in T, data \in P : Install(change_password(t, data))
DeleteUser == \E u \in DOMAIN users : Install(Committed(200, {}, remove_user(u)))

GetLocations(T) == \E t \in T : Install(get_locations(t))
CreateLocation(T, P) == \E t \in T, data \in P : Install(create_location(t, data))
GetLocation(T) == \E t \in T, l \in LocationIds : Install(get_location(t, l))
UpdateLocation(T, P) ==
    \E t \in T, l \in LocationIds, data \in P : Install(update_location(t, l, data))
DeleteLocation(T) == \E t \in T, l \in LocationIds : Install(delete_location(t, l))

SessionFilters == {Null} \cup {Str(l) : l \in LocationIds}
GetSessions(T) == \E t \in T, f \in SessionFilters : Install(get_sessions(t, f))
CreateSession(T, P) == \E t \in T, data \in P : Install(create_session(t, data))
GetSession(T) == \E t \in T, s \in SessionIds : Install(get_session(t, s))
UpdateSession(T, P) ==
    \E t \in T, s \in SessionIds, data \in P : Install(update_session(t, s, data))
DeleteSession(T) == \E t \in T, s \in SessionIds : Install(delete_session(t, s))

CatchFilters == {Null} \cup {Str(s) : s \in SessionIds}
GetCatches(T) == \E t \in T, f \in CatchFilters : Install(get_catches(t, f))
CreateCatch(T, P) == \E t \in T, data \in P : Install(create_catch(t, data))
GetCatch(T) == \E t \in T, c \in CatchIds : Install(get_catch(t, c))
UpdateCatch(T, P) ==
    \E t \in T, c \in CatchIds, data \in P : Install(update_catch(t, c, data))
DeleteCatch(T) == \E t \in T, c \in CatchIds : Install(delete_catch(t, c))
GetCatchesBySession(T) == \E t \in T, s \in SessionIds : Install(get_catches_by_session(t, s))

GetOverviewStats(T) ==
    \E t \in T : \E last \in last_session_choices(t.user_id) :
        Install(get_overview_stats(t, last))

\* The whole API driven by registered users' valid tokens.
Next ==
    \/ Register(RegisterPayloads)
    \/ GetLocations(GoodTokens)
    \/ CreateLocation(GoodTokens, LocationCreatePayloads)
    \/ GetLocation(GoodTokens)
    \/ UpdateLocation(GoodTokens, LocationUpdatePayloads)
    \/ DeleteLocation(GoodTokens)
    \/ GetSessions(GoodTokens)
    \/ CreateSession(GoodTokens, SessionCreatePayloads)
    \/ GetSession(GoodTokens)
    \/ UpdateSession(GoodTokens, SessionUpdatePayloads)
    \/ DeleteSession(GoodTokens)
    \/ GetCatches(GoodTokens)
    \/ CreateCatch(GoodTokens, CatchCreatePayloads)
    \/ GetCatch(GoodTokens)
    \/ UpdateCatch(GoodTokens, CatchUpdatePayloads)
    \/ DeleteCatch(GoodTokens)
    \/ GetCatchesBySession(GoodTokens)
    \/ GetOverviewStats(GoodTokens)

Spec == Init /\ [][Next]_vars

(***************************************************************************)
(* Ownership, as the data model defines it: a location and a session belong *)
(* to their user_id, a catch to the user of its session.                    *)
(***************************************************************************)
OwnedLocations(d, u) == {l \in DOMAIN d.locations : d.locations[l].user_id = u}
OwnedSessions(d, u) == {s \in DOMAIN d.fishing_sessions : d.fishing_sessions[s].user_id = u}
OwnedCatches(d, u) ==
    {c \in DOMAIN d.catches : \E s \in OwnedSessions(d, u) : d.catches[c].session_id = Str(s)}

OwnedRows(d, u) ==
    {<<"locations", l>> : l \in OwnedLocations(d, u)}
    \cup {<<"fishing_sessions", s>> : s \in OwnedSessions(d, u)}
    \cup {<<"catches", c>> : c \in OwnedCatches(d, u)}

\* Everything user u owns in the store d, with its content.
OwnedView(d, u) ==
    <<[l \in OwnedLocations(d, u) |-> d.locations[l]],
      [s \in OwnedSessions(d, u) |-> d.fishing_sessions[s]],
      [c \in OwnedCatches(d, u) |-> d.catches[c]]>>

\* The request of user u with result res neither disclosed nor changed a row of
\* another user.
Isolated(u, res) ==
    \A v \in DOMAIN users \ {u} :
        /\ OwnedView(res.db, v) = OwnedView(db, v)
        /\ res.rows \cap (OwnedRows(db, v) \cup OwnedRows(res.db, v)) = {}

\* The request was answered not-found and changed and disclosed nothing.
Refused(res) == res.status = 404 /\ res.db = db /\ res.rows = {}

ForeignLocation(u, l) == l \in DOMAIN locations /\ locations[l].user_id # u
ForeignSession(u, s) == s \in DOMAIN fishing_sessions /\ fishing_sessions[s].user_id # u
ForeignCatch(u, c) == c \in DOMAIN catches /\ c \notin OwnedCatches(db, u)

\* C1 (locations): no location request of u discloses or changes a row of
\* another user, and get/update/delete of a foreign location is refused.
IsolationOfLocations(u) ==
    LET t == ValidToken(u) IN
    /\ Isolated(u, get_locations(t))
    /\ \A data \in LocationCreatePayloads : Isolated(u, create_location(t, data))
    /\ \A l \in LocationIds :
        /\ Isolated(u, get_location(t, l))
        /\ Isolated(u, delete_location(t, l))
        /\ \A data \in LocationUpdatePayloads : Isolated(u, update_location(t, l, data))
        /\ ForeignLocation(u, l) =>
            /\ Refused(get_location(t, l))
            /\ Refused(delete_location(t, l))
            /\ \A data \in LocationUpdatePayloads : Refused(update_location(t, l, data))

\* C1 (sessions)
IsolationOfSessions(u) ==
    LET t == ValidToken(u) IN
    /\ \A f \in SessionFilters : Isolated(u, get_sessions(t, f))
    /\ \A data \in SessionCreatePayloads : Isolated(u, create_session(t, data))
    /\ \A s \in SessionIds :
        /\ Isolated(u, get_session(t, s))
        /\ Isolated(u, delete_session(t, s))
        /\ Isolated(u, get_catches_by_session(t, s))
        /\ \A data \in SessionUpdatePayloads : Isolated(u, update_session(t, s, data))
        /\ ForeignSession(u, s) =>
            /\ Refused(get_session(t, s))
            /\ Refused(delete_session(t, s))
            /\ Refused(get_catches_by_session(t, s))
            /\ \A data \in SessionUpdatePayloads : Refused(update_session(t, s, data))

\* C1 (catches and statistics)
IsolationOfCatches(u) ==
    LET t == ValidToken(u) IN
    /\ \A f \in CatchFilters : Isolated(u, get_catches(t, f))
    /\ \A data \in CatchCreatePayloads : Isolated(u, create_catch(t, data))
    /\ \A last \in last_session_choices(u) : Isolated(u, get_overview_stats(t, last))
    /\ \A c \in CatchIds :
        /\ Isolated(u, get_catch(t, c))
        /\ Isolated(u, delete_catch(t, c))
        /\ \A data \in CatchUpdatePayloads : Isolated(u, update_catch(t, c, data))
        /\ ForeignCatch(u, c) =>
            /\ Refused(get_catch(t, c))
            /\ Refused(delete_catch(t, c))
            /\ \A data \in CatchUpdatePayloads : Refused(update_catch(t, c, data))

\* C1: ownership isolation.  In every reachable store and for every user u, no
\* get, list, create, update or delete issued with u's token discloses or
\* changes a location, session or catch owned (directly or through its session)
\* by another user, and a get, update or delete that targets another user's row
\* is answered 404 and leaves the store unchanged.
OwnershipIsolation ==
    \A u \in DOMAIN users :
        IsolationOfLocations(u) /\ IsolationOfSessions(u) /\ IsolationOfCatches(u)

\* C1 witness: two users; one owns a location, a session there and a catch in
\* it, the other owns a location; the other's requests for the first one's
\* session and catch were refused.
OwnershipIsolationWitness ==
    \E u \in DOMAIN users, v \in DOMAIN users :
        /\ u # v
        /\ OwnedLocations(db, u) # {}
        /\ OwnedLocations(db, v) # {}
        /\ \E s \in OwnedSessions(db, v), c \in OwnedCatches(db, v) :
            /\ Refused(get_session(ValidToken(u), s))
            /\ Refused(delete_catch(ValidToken(u), c))
            /\ \E l \in OwnedLocations(db, u) :
                 Refused(update_session(ValidToken(u), s, [location_id |-> Str(l)]))

(***************************************************************************)
(* Partial updates (C6).                                                   *)
(***************************************************************************)
LocationFields == {"user_id", "name", "latitude", "longitude", "description"}
SessionFields ==
    {"user_id", "location_id", "date", "start_time", "end_time", "duration_minutes",
     "weather_conditions", "temperature_celsius", "notes"}
CatchFields ==
    {"session_id", "species", "weight_kg", "length_cm", "bait_used", "released",
     "photo_url"}

\* Of the row `id` of a table, a successful update with payload `data` changed
\* no field outside `data` (and outside `derived`), and no other row of the
\* table.
OnlyPayloadFields(old, new, id, fields, derived, data) ==
    /\ DOMAIN new = DOMAIN old
    /\ \A i \in DOMAIN old \ {id} : new[i] = old[i]
    /\ \A f \in fields \ (DOMAIN data \cup derived) : new[id][f] = old[id][f]

\* C6: a successful update_location, update_session or update_catch changes
\* only the fields whose keys are in the payload (for a session also the derived
\* duration_minutes); every other field of the row, every other row of the
\* table and every other table keep their values.
PartialUpdateFrame ==
    \A t \in GoodTokens :
        /\ \A l \in LocationIds, data \in LocationUpdatePayloads :
            LET res == update_location(t, l, data) IN
            res.status = 200 =>
                /\ OnlyPayloadFields(locations, res.db.locations, l, LocationFields, {}, data)
                /\ res.db.fishing_sessions = fishing_sessions
                /\ res.db.catches = catches
                /\ res.db.users = users
        /\ \A x \in SessionIds, data \in SessionUpdatePayloads :
            LET res == update_session(t, x, data) IN
            res.status = 200 =>
                /\ OnlyPayloadFields(fishing_sessions, res.db.fishing_sessions, x,
                                     SessionFields, {"duration_minutes"}, data)
                /\ res.db.locations = locations
                /\ res.db.catches = catches
                /\ res.db.users = users
        /\ \A c \in CatchIds, data \in CatchUpdatePayloads :
            LET res == update_catch(t, c, data) IN
            res.status = 200 =>
                /\ OnlyPayloadFields(catches, res.db.catches, c, CatchFields, {}, data)
                /\ res.db.locations = locations
                /\ res.db.fishing_sessions = fishing_sessions
                /\ res.db.users = users

\* C6 witness: a location that was renamed and kept its description, a session
\* whose notes were set and a catch whose species was changed, each by an update
\* naming one key only.
PartialUpdateFrameWitness ==
    /\ \E l \in DOMAIN locations :
        /\ locations[l].name = Text("Lake2") /\ locations[l].description = Null
        /\ update_location(ValidToken(locations[l].user_id), l,
                           [description |-> Null]).status = 200
    /\ \E x \in DOMAIN fishing_sessions :
        /\ fishing_sessions[x].notes = Text("windy")
        /\ fishing_sessions[x].end_time = [hour |-> 23, minute |-> 30]
    /\ \E c \in DOMAIN catches :
        /\ catches[c].species = Text("Carp") /\ catches[c].weight_kg = Num(2)

(***************************************************************************)
(* The guard of delete_location (C7).                                      *)
(***************************************************************************)
\* C7: delete_location by the owner of a location that has at least one
\* fishing session is answered 400 and leaves the location, its sessions and
\* their catches (the whole store) as they were.
DeleteLocationGuard ==
    \A l \in DOMAIN locations :
        (\E x \in DOMAIN fishing_sessions : fishing_sessions[x].location_id = Str(l)) =>
            LET res == delete_location(ValidToken(locations[l].user_id), l) IN
            /\ res.status = 400
            /\ res.db = db

\* C7 witness: a location with a session that holds a catch, whose owner's
\* delete request was answered 400.
DeleteLocationGuardWitness ==
    \E l \in DOMAIN locations, x \in DOMAIN fishing_sessions, c \in DOMAIN catches :
        /\ fishing_sessions[x].location_id = Str(l)
        /\ catches[c].session_id = Str(x)
        /\ delete_location(ValidToken(locations[l].user_id), l).status = 400

(***************************************************************************)
(* The parent of a created row (C8).                                       *)
(***************************************************************************)
\* The location (the session) the payload names is absent or another user's.
BadLocationParent(u, data) ==
    /\ Has(data, "location_id") /\ data.location_id.t = "str" /\ data.location_id.s # <<>>
    /\ data.location_id.s \notin OwnedLocations(db, u)
BadSessionParent(u, data) ==
    /\ Has(data, "session_id") /\ data.session_id.t = "str" /\ data.session_id.s # <<>>
    /\ data.session_id.s \notin OwnedSessions(db, u)

RequiredPresent(data, keys) == \A k \in keys : Truthy(Get(data, k))
SessionRequired == {"location_id", "date", "start_time", "end_time"}
CatchRequired == {"session_id", "species"}

\* C8 as stated: every create_session naming an absent or foreign location and
\* every create_catch naming an absent or foreign session is answered 404 and
\* creates no row.
BadParentAlwaysNotFound ==
    \A u \in DOMAIN users :
        /\ \A data \in SessionCreatePayloads :
            BadLocationParent(u, data) =>
                LET res == create_session(ValidToken(u), data) IN
                res.status = 404 /\ res.db = db
        /\ \A data \in CatchCreatePayloads :
            BadSessionParent(u, data) =>
                LET res == create_catch(ValidToken(u), data) IN
                res.status = 404 /\ res.db = db

\* C8 amended: with an absent or foreign parent no row is created and the
\* answer is 404 when all required fields are present and non-empty, 400 when
\* one is missing; the answer never depends on whether the parent is absent or
\* another user's.
BadParentNotFound ==
    \A u \in DOMAIN users :
        /\ \A data \in SessionCreatePayloads :
            BadLocationParent(u, data) =>
                LET res == create_session(ValidToken(u), data) IN
                /\ res.db = db
                /\ res.status = IF RequiredPresent(data, SessionRequired) THEN 404 ELSE 400
        /\ \A data \in CatchCreatePayloads :
            BadSessionParent(u, data) =>
                LET res == create_catch(ValidToken(u), data) IN
                /\ res.db = db
                /\ res.status = IF RequiredPresent(data, CatchRequired) THEN 404 ELSE 400

\* C8 witness: a user for whom one location is another user's and one location
\* id names no row, and likewise for sessions; the creates naming them were
\* answered 404.
BadParentNotFoundWitness ==
    \E u \in DOMAIN users :
        /\ \E l \in LocationIds, m \in LocationIds :
            /\ ForeignLocation(u, l) /\ m \notin DOMAIN locations
            /\ \E data \in SessionCreatePayloads, other \in SessionCreatePayloads :
                /\ data.location_id = Str(l) /\ other.location_id = Str(m)
                /\ create_session(ValidToken(u), data).status = 404
                /\ create_session(ValidToken(u), other).status = 404
        /\ \E x \in SessionIds :
            /\ ForeignSession(u, x)
            /\ \E data \in CatchCreatePayloads :
                /\ data.session_id = Str(x)
                /\ create_catch(ValidToken(u), data).status = 404

(***************************************************************************)
(* Errors and the transaction (C9).                                        *)
(***************************************************************************)
ErrorStatus == {400, 401, 404, 500}

\* The request ended in an error and either changed the store or answered from
\* an except clause that did not call db.session.rollback().
LeavesTrace(res) ==
    /\ res.status \in ErrorStatus
    /\ \/ res.db # db
       \/ res.raised # "none" /\ ~res.rollback

\* C9 as stated: every mutating operation that ends in an error response leaves
\* the store as it was, and every exception path rolls back before it answers.
ErrorsRollBack ==
    /\ \A data \in RegisterPayloads : ~LeavesTrace(register(data))
    /\ \A t \in GoodTokens :
        /\ \A data \in PasswordPayloads : ~LeavesTrace(change_password(t, data))
        /\ \A data \in LocationCreatePayloads : ~LeavesTrace(create_location(t, data))
        /\ \A data \in SessionCreatePayloads : ~LeavesTrace(create_session(t, data))
        /\ \A data \in CatchCreatePayloads : ~LeavesTrace(create_catch(t, data))
        /\ \A l \in LocationIds :
            /\ ~LeavesTrace(delete_location(t, l))
            /\ \A data \in LocationUpdatePayloads : ~LeavesTrace(update_location(t, l, data))
        /\ \A x \in SessionIds :
            /\ ~LeavesTrace(delete_session(t, x))
            /\ \A data \in SessionUpdatePayloads : ~LeavesTrace(update_session(t, x, data))
        /\ \A c \in CatchIds :
            /\ ~LeavesTrace(delete_catch(t, c))
            /\ \A data \in CatchUpdatePayloads : ~LeavesTrace(update_catch(t, c, data))

\* C9, the case the claim names: no update_session answers 400 while the
\* session object holds a location_id assigned before the date failed to
\* parse, without a rollback.
NoUnrolledAssignment ==
    \A t \in GoodTokens, x \in SessionIds, data \in SessionUpdatePayloads :
        LET res == update_session(t, x, data) IN
        ~(res.status = 400 /\ res.dirty /\ ~res.rollback)

(***************************************************************************)
(* The location of a session (C10).                                        *)
(***************************************************************************)
\* C10 as stated: every stored session's location_id names an existing location
\* of the session's user.
SessionLocationOwned ==
    \A x \in DOMAIN fishing_sessions :
        \E l \in DOMAIN locations :
            /\ fishing_sessions[x].location_id = Str(l)
            /\ locations[l].user_id = fishing_sessions[x].user_id

(***************************************************************************)
(* Authentication (C2): the API driven with every kind of token, while      *)
(* users register, log in, change passwords and are removed.  Tokens are     *)
(* those login and register issue (a user_id and an expiry, signed with the  *)
(* server's key) at any later time, a missing header and undecodable text.   *)
(***************************************************************************)
UserIds == {<<"users", n>> : n \in 1..MaxUsers}
AuthTokens ==
    {MissingToken, GarbageToken}
    \cup {ExpiredToken(u) : u \in UserIds} \cup {ValidToken(u) : u \in UserIds}

AuthLocationCreatePayloads ==
    {[name |-> Text("Lake1"), latitude |-> Num(1), longitude |-> Num(2)]}
AuthLocationUpdatePayloads == {[name |-> Text("Lake2")]}
AuthSessionCreatePayloads ==
    {[location_id |-> Str(l), date |-> DateText(2024, 1, 1),
      start_time |-> TimeText(22, 0), end_time |-> TimeText(2, 0)] : l \in LocationIds}
AuthSessionUpdatePayloads == {[notes |-> Text("windy")]}
AuthCatchCreatePayloads ==
    {[session_id |-> Str(s), species |-> Text("Bass"), weight_kg |-> Num(2),
      released |-> Bool(FALSE)] : s \in SessionIds}
AuthCatchUpdatePayloads == {[species |-> Text("Carp")]}

NextAuth ==
    \/ Register(RegisterPayloads)
    \/ Login(LoginPayloads)
    \/ GetCurrentUser(AuthTokens)
    \/ ChangePassword(AuthTokens, PasswordPayloads)
    \/ DeleteUser
    \/ GetLocations(AuthTokens)
    \/ CreateLocation(AuthTokens, AuthLocationCreatePayloads)
    \/ GetLocation(AuthTokens)
    \/ UpdateLocation(AuthTokens, AuthLocationUpdatePayloads)
    \/ DeleteLocation(AuthTokens)
    \/ GetSessions(AuthTokens)
    \/ CreateSession(AuthTokens, AuthSessionCreatePayloads)
    \/ GetSession(AuthTokens)
    \/ UpdateSession(AuthTokens, AuthSessionUpdatePayloads)
    \/ DeleteSession(AuthTokens)
    \/ GetCatches(AuthTokens)
    \/ CreateCatch(AuthTokens, AuthCatchCreatePayloads)
    \/ GetCatch(AuthTokens)
    \/ UpdateCatch(AuthTokens, AuthCatchUpdatePayloads)
    \/ DeleteCatch(AuthTokens)
    \/ GetCatchesBySession(AuthTokens)
    \/ GetOverviewStats(AuthTokens)

SpecAuth == Init /\ [][NextAuth]_vars

\* The credential is missing, undecodable, expired, or names no stored user.
BadCredential(t) == t.kind # "valid" \/ t.user_id \notin DOMAIN users

\* 401, sent before the handler's body ran: nothing raised inside a try block,
\* no row read into the response, the store as it was.
Denied(res) ==
    /\ res.status = 401
    /\ res.raised = "none" /\ ~res.dirty
    /\ res.rows = {} /\ res.body = Null
    /\ res.db = db

SessionDates == {<<2024, 1, 1>>, <<2024, 2, 29>>, <<9999, 12, 31>>}
CreateTimes == {<<20, 0>>, <<22, 0>>, <<2, 0>>, <<23, 30>>}
UpdateTimes == {<<22, 0>>, <<2, 0>>, <<21, 15>>}

SessionCreateRequest(l, d, s, e) ==
    [location_id |-> Str(l), date |-> DateText(d[1], d[2], d[3]),
     start_time |-> TimeText(s[1], s[2]), end_time |-> TimeText(e[1], e[2])]

DurationRegisterPayloads ==
    {[email |-> Text("a"), username |-> Text("a"), password |-> Text("pw123")]}

DurationCreatePayloads ==
    {SessionCreateRequest(l, d, s, e) :
        l \in LocationIds, d \in SessionDates, s \in CreateTimes, e \in CreateTimes}
    \cup {SessionCreateRequest(l, <<2023, 2, 29>>, <<22, 0>>, <<2, 0>>) : l \in LocationIds}
    \cup {SessionCreateRequest(l, <<2024, 1, 1>>, <<22, 0>>, <<24, 0>>) : l \in LocationIds}

\* Update payloads without any of the keys date, start_time, end_time.
UntimedUpdatePayloads ==
    {[notes |-> Text("windy")],
     [weather_conditions |-> Text("rain"), temperature_celsius |-> Num(18)],
     [temperature_celsius |-> Text("cold")],
     [location_id |-> Empty],
     [location_id |-> Null]}
    \cup {[location_id |-> Str(l)] : l \in LocationIds}
    \cup {[location_id |-> Str(l), temperature_celsius |-> Text("cold")] : l \in LocationIds}

TimedUpdatePayloads ==
    {[date |-> DateText(d[1], d[2], d[3])] : d \in SessionDates}
    \cup {[start_time |-> TimeText(s[1], s[2])] : s \in UpdateTimes}
    \cup {[end_time |-> TimeText(e[1], e[2])] : e \in UpdateTimes}
    \cup {[start_time |-> TimeText(s[1], s[2]), end_time |-> TimeText(e[1], e[2]),
           notes |-> Text("windy")] : s \in UpdateTimes, e \in UpdateTimes}
    \cup {[date |-> Text("tomorrow")],
          [start_time |-> TimeText(21, 15), end_time |-> Text("late")],
          [end_time |-> Null]}

DurationUpdatePayloads == UntimedUpdatePayloads \cup TimedUpdatePayloads

NextSessions ==
    \/ Register(DurationRegisterPayloads)
    \/ CreateLocation(GoodTokens, LocationCreatePayloads)
    \/ CreateSession(GoodTokens, DurationCreatePayloads)
    \/ GetSession(GoodTokens)
    \/ UpdateSession(GoodTokens, DurationUpdatePayloads)
    \/ DeleteSession(GoodTokens)

SpecSessions == Init /\ [][NextSessions]_vars

\* Minutes from start to end on a 24 hour clock face.
ClockMinutes(start_time, end_time) ==
    LET s == start_time.hour * 60 + start_time.minute
        e == end_time.hour * 60 + end_time.minute
    IN IF e >= s THEN e - s ELSE e - s + 24 * 60

TimeOf(x) == [hour |-> x[1], minute |-> x[2]]

\* The session create_session(t, data) stored.
Created(res) == res.db.fishing_sessions[generate_uuid("fishing_sessions")]

\* C3: a session created with a valid date, start and end time stores
\* end - start in minutes when end >= start and end - start + 24h when
\* end < start: 22:00 to 02:00 gives 240, 20:00 to 23:30 gives 210, and start
\* equal to end gives 0.
CreatedDuration ==
    \A t \in GoodTokens, l \in LocationIds, d \in SessionDates,
       s \in CreateTimes, e \in CreateTimes :
        LET res == create_session(t, SessionCreateRequest(l, d, s, e)) IN
        res.status = 201 =>
            /\ Created(res).start_time = TimeOf(s)
            /\ Created(res).end_time = TimeOf(e)
            /\ Created(res).duration_minutes = ClockMinutes(TimeOf(s), TimeOf(e))
            /\ (s = <<22, 0>> /\ e = <<2, 0>>) => Created(res).duration_minutes = 240
            /\ (s = <<20, 0>> /\ e = <<23, 30>>) => Created(res).duration_minutes = 210
            /\ s = e => Created(res).duration_minutes = 0

\* C3 witness: a stored session from 22:00 to 02:00 with 240 minutes, in a
\* state where creating 20:00 to 23:30 and 22:00 to 22:00 is answered 201.
CreatedDurationWitness ==
    \E x \in DOMAIN fishing_sessions :
        /\ fishing_sessions[x].start_time = TimeOf(<<22, 0>>)
        /\ fishing_sessions[x].end_time = TimeOf(<<2, 0>>)
        /\ fishing_sessions[x].duration_minutes = 240
        /\ fishing_sessions[x].notes = Null
        /\ \E l \in LocationIds :
            /\ fishing_sessions[x].location_id = Str(l)
            /\ create_session(ValidToken(fishing_sessions[x].user_id),
                   SessionCreateRequest(l, <<2024, 1, 1>>, <<20, 0>>, <<23, 30>>)).status = 201
            /\ create_session(ValidToken(fishing_sessions[x].user_id),
                   SessionCreateRequest(l, <<9999, 12, 31>>, <<22, 0>>, <<22, 0>>)).status = 201

\* C4: every stored session's duration_minutes is the duration of its current
\* start_time and end_time under the overnight rule.
DurationNeverStale ==
    \A x \in DOMAIN fishing_sessions :
        fishing_sessions[x].duration_minutes =
            ClockMinutes(fishing_sessions[x].start_time, fishing_sessions[x].end_time)

\* C4 witness: a session whose start time and date only updates assign, with
\* the duration of its present times (21:15 to 02:00).
DurationNeverStaleWitness ==
    \E x \in DOMAIN fishing_sessions :
        /\ fishing_sessions[x].start_time = TimeOf(<<21, 15>>)
        /\ fishing_sessions[x].end_time = TimeOf(<<2, 0>>)
        /\ fishing_sessions[x].date = [year |-> 2024, month |-> 2, day |-> 29]
        /\ fishing_sessions[x].duration_minutes = 285

Untimed(data) == DOMAIN data \cap {"date", "start_time", "end_time"} = {}

\* C5: an update_session whose payload has none of the keys date, start_time,
\* end_time leaves the session's duration_minutes, date, start_time and
\* end_time as they were, whatever else it changes and however it ends.
UntimedUpdateKeepsDuration ==
    \A t \in GoodTokens, x \in DOMAIN fishing_sessions, data \in DurationUpdatePayloads :
        Untimed(data) =>
            LET res == update_session(t, x, data)
                old == fishing_sessions[x]
            IN
            /\ x \in DOMAIN res.db.fishing_sessions
            /\ res.db.fishing_sessions[x].duration_minutes = old.duration_minutes
            /\ res.db.fishing_sessions[x].date = old.date
            /\ res.db.fishing_sessions[x].start_time = old.start_time
            /\ res.db.fishing_sessions[x].end_time = old.end_time

\* C5 witness: an overnight session of 240 minutes whose notes an update set
\* to "windy".
UntimedUpdateKeepsDurationWitness ==
    \E x \in DOMAIN fishing_sessions :
        /\ fishing_sessions[x].notes = Text("windy")
        /\ fishing_sessions[x].temperature_celsius = Null
        /\ fishing_sessions[x].start_time = TimeOf(<<20, 0>>)
        /\ fishing_sessions[x].end_time = TimeOf(<<2, 0>>)
        /\ fishing_sessions[x].duration_minutes = 360
        /\ update_session(ValidToken(fishing_sessions[x].user_id), x,
                          [notes |-> Text("windy")]).status = 200

(***************************************************************************)
(* Location names (C11): two users creating, renaming and deleting          *)
(* locations, one request at a time.                                        *)
(***************************************************************************)
NameUpdatePayloads ==
    {[name |-> Text("Lake1")],
     [name |-> Text("Lake2")],
     [name |-> Empty],
     [name |-> Null],
     [description |-> Text("deep")]}

\* A spot on the equator, one on the prime meridian and one on both.
ZeroCoordinatePayloads ==
    {[name |-> Text("Lake1"), latitude |-> Num(0), longitude |-> Num(2)],
     [name |-> Text("Lake1"), latitude |-> Num(1), longitude |-> Num(0)],
     [name |-> Text("Lake2"), latitude |-> Num(0), longitude |-> Num(0)]}

NextLocations ==
    \/ Register(RegisterPayloads)
    \/ GetLocations(GoodTokens)
    \/ CreateLocation(GoodTokens, LocationCreatePayloads \cup ZeroCoordinatePayloads)
    \/ GetLocation(GoodTokens)
    \/ UpdateLocation(GoodTokens, NameUpdatePayloads)
    \/ DeleteLocation(GoodTokens)

SpecLocations == Init /\ [][NextLocations]_vars

\* C11 as stated: no user owns two locations with the same name.
LocationNamesUnique ==
    \A l \in DOMAIN locations, m \in DOMAIN locations :
        (l # m /\ locations[l].user_id = locations[m].user_id) =>
            locations[l].name # locations[m].name

\* C11, the renames: no update_location that is answered 200 gives a location
\* the name another location of its owner has.
NoDuplicatingRename ==
    \A t \in GoodTokens, l \in LocationIds, data \in NameUpdatePayloads :
        LET res == update_location(t, l, data) IN
        res.status = 200 =>
            \A m \in DOMAIN res.db.locations :
                (m # l /\ res.db.locations[m].user_id = res.db.locations[l].user_id) =>
                    res.db.locations[m].name # res.db.locations[l].name

(***************************************************************************)
(* Removing a user (C12).                                                  *)
(***************************************************************************)
\* Every row some read request discloses, whatever token it carries.
Disclosed ==
    UNION {
        get_locations(t).rows
        \cup UNION {get_location(t, l).rows : l \in LocationIds}
        \cup UNION {get_sessions(t, f).rows : f \in SessionFilters}
        \cup UNION {get_session(t, x).rows \cup get_catches_by_session(t, x).rows :
                        x \in SessionIds}
        \cup UNION {get_catches(t, f).rows : f \in CatchFilters}
        \cup UNION {get_catch(t, c).rows : c \in CatchIds}
        \cup UNION {get_overview_stats(t, last).rows : last \in last_session_choices(t.user_id)}
        : t \in AuthTokens}

StoredRows ==
    {<<"locations", l>> : l \in DOMAIN locations}
    \cup {<<"fishing_sessions", x>> : x \in DOMAIN fishing_sessions}
    \cup {<<"catches", c>> : c \in DOMAIN catches}

\* C12: the step that removes a user removes every location and session of
\* that user and every catch of those sessions; afterwards no request
\* retrieves any of them, and the other users and their rows are as before.
DeleteUserCascades ==
    [][\A u \in DOMAIN users :
        u \notin DOMAIN users' =>
            /\ OwnedRows(db, u) \cap StoredRows' = {}
            /\ OwnedRows(db, u) \cap Disclosed' = {}
            /\ \A v \in DOMAIN users \ {u} :
                /\ v \in DOMAIN users' /\ users'[v] = users[v]
                /\ OwnedView(db, v)' = OwnedView(db, v)]_vars

\* C12 witness: a user that was removed after a location, a session and a catch
\* had been created, none of which is stored any more, while the other user
\* still owns a location; the removed user's token is answered 401.
DeleteUserCascadesWitness ==
    \E gone \in IssuedUsers \ DOMAIN users, v \in DOMAIN users :
        /\ issued.locations = 2 /\ issued.fishing_sessions = 1 /\ issued.catches = 1
        /\ OwnedLocations(db, v) # {}
        /\ Cardinality(DOMAIN locations) = 1
        /\ fishing_sessions = NoRows /\ catches = NoRows
        /\ get_locations(ValidToken(gone)).status = 401

(***************************************************************************)
(* Statistics (C13..C17, C20): two users, up to MaxStatsSessions sessions   *)
(* and MaxStatsCatches catches, so that a user can own two sessions and a   *)
(* session can hold two catches.                                            *)
(***************************************************************************)
StatsSessionIds == {<<"fishing_sessions", n>> : n \in 1..MaxStatsSessions}
StatsCatchIds == {<<"catches", n>> : n \in 1..MaxStatsCatches}

StatsRegisterPayloads ==
    {[email |-> Text(n), username |-> Text(n), password |-> Text("pw123")] : n \in {"a", "b"}}

StatsLocationPayloads ==
    {[name |-> Text("Lake1"), latitude |-> Num(1), longitude |-> Num(2)]}

\* An evening session and a later overnight one, on the same date.
StatsSessionPayloads ==
    {[location_id |-> Str(l), date |-> DateText(2024, 1, 1),
      start_time |-> TimeText(20, 0), end_time |-> TimeText(23, 30)] : l \in LocationIds}
    \cup {[location_id |-> Str(l), date |-> DateText(2024, 1, 1),
           start_time |-> TimeText(22, 0), end_time |-> TimeText(2, 0)] : l \in LocationIds}

StatsSessionUpdatePayloads == {[location_id |-> Empty]}

\* Catches with a bait (released), with an empty bait and with none (kept).
StatsCatchPayloads ==
    {[session_id |-> Str(x), species |-> Text("Bass"), weight_kg |-> Num(2),
      bait_used |-> Text("worm"), released |-> Bool(TRUE)] : x \in StatsSessionIds}
    \cup {[session_id |-> Str(x), species |-> Text("Bass"), weight_kg |-> Num(2),
           bait_used |-> Empty] : x \in StatsSessionIds}
    \cup {[session_id |-> Str(x), species |-> Text("Bass")] : x \in StatsSessionIds}

\* request.args.get('limit', 10, type=int)
BaitLimits == {0, 1, 10}

InstallStats(res) ==
    /\ res.db.issued.users <= MaxUsers
    /\ res.db.issued.locations <= MaxLocations
    /\ res.db.issued.fishing_sessions <= MaxStatsSessions
    /\ res.db.issued.catches <= MaxStatsCatches
    /\ users' = res.db.users
    /\ locations' = res.db.locations
    /\ fishing_sessions' = res.db.fishing_sessions
    /\ catches' = res.db.catches
    /\ issued' = res.db.issued
    /\ UNCHANGED <<using_supabase, inflight>>

StatsRegister(P) == \E data \in P : InstallStats(register(data))
StatsCreateLocation(T, P) == \E t \in T, data \in P : InstallStats(create_location(t, data))
StatsCreateSession(T, P) == \E t \in T, data \in P : InstallStats(create_session(t, data))
StatsUpdateSession(T, P) ==
    \E t \in T, x \in StatsSessionIds, data \in P : InstallStats(update_session(t, x, data))
StatsDeleteSession(T) == \E t \in T, x \in StatsSessionIds : InstallStats(delete_session(t, x))
StatsCreateCatch(T, P) == \E t \in T, data \in P : InstallStats(create_catch(t, data))
StatsGetOverview(T) ==
    \E t \in T : \E last \in last_session_choices(t.user_id) :
        InstallStats(get_overview_stats(t, last))
StatsGetBaits(T) == \E t \in T, limit \in BaitLimits : InstallStats(get_bait_stats(t, limit))
StatsGetLocations(T) == \E t \in T : InstallStats(get_location_stats(t))

NextStats ==
    \/ StatsRegister(StatsRegisterPayloads)
    \/ StatsCreateLocation(GoodTokens, StatsLocationPayloads)
    \/ StatsCreateSession(GoodTokens, StatsSessionPayloads)
    \/ StatsUpdateSession(GoodTokens, StatsSessionUpdatePayloads)
    \/ StatsDeleteSession(GoodTokens)
    \/ StatsCreateCatch(GoodTokens, StatsCatchPayloads)
    \/ StatsGetOverview(GoodTokens)
    \/ StatsGetBaits(GoodTokens)
    \/ StatsGetLocations(GoodTokens)

SpecStats == Init /\ [][NextStats]_vars

(***************************************************************************)
(* Deleting a session (C13).                                               *)
(***************************************************************************)
\* The rows of the store other than session x and its catches.
RowsBeside(store, x) ==
    [users |-> store.users,
     locations |-> store.locations,
     fishing_sessions |-> Without(store.fishing_sessions, x),
     catches |-> [c \in {d \in DOMAIN store.catches : store.catches[d].session_id # Str(x)}
                    |-> store.catches[c]]]

\* The step is the owner's delete_session of x, answered 200.
DeletedSession(t, x) ==
    /\ delete_session(t, x).status = 200
    /\ x \in DOMAIN fishing_sessions
    /\ db' = delete_session(t, x).db

\* C13, the removal: after a delete_session answered 200 the session and its
\* catches are gone, get_session and get_catch on them answer 404, and no
\* other row has changed.
DeleteSessionCascades ==
    [][\A t \in GoodTokens, x \in StatsSessionIds :
        DeletedSession(t, x) =>
            /\ x \notin DOMAIN fishing_sessions'
            /\ catches_of_session(x) \cap DOMAIN catches' = {}
            /\ get_session(t, x)'.status = 404
            /\ \A c \in catches_of_session(x) : get_catch(t, c)'.status = 404
            /\ RowsBeside(db, x)' = RowsBeside(db, x)]_vars

\* C13 as stated: besides the removal, the owner's overview afterwards reports
\* one session less and as many catches less as were removed.
DeleteSessionLowersOverview ==
    [][\A t \in GoodTokens, x \in StatsSessionIds :
        DeletedSession(t, x) =>
            /\ x \notin DOMAIN fishing_sessions'
            /\ catches_of_session(x) \cap DOMAIN catches' = {}
            /\ get_session(t, x)'.status = 404
            /\ \A c \in catches_of_session(x) : get_catch(t, c)'.status = 404
            /\ RowsBeside(db, x)' = RowsBeside(db, x)
            /\ \A last \in last_session_choices(t.user_id)' :
                LET after == get_overview_stats(t, last)' IN
                /\ after.status = 200
                /\ after.body.total_sessions
                     = Cardinality(sessions_of_user(t.user_id)) - 1
                /\ after.body.total_catches
                     = Cardinality(catches_of_user(t.user_id))
                         - Cardinality(catches_of_session(x))]_vars

(***************************************************************************)
(* The overview (C14).                                                     *)
(***************************************************************************)
\* C14 as stated: every overview a registered user asks for is answered 200
\* with kept_count + released_count = total_catches, with no negative count,
\* hours or weight, and with zeros when the user has no session and no catch.
OverviewBalanced ==
    \A t \in GoodTokens : \A last \in last_session_choices(t.user_id) :
        LET res == get_overview_stats(t, last)
            b == res.body
        IN
        /\ res.status = 200
        /\ b.kept_count + b.released_count = b.total_catches
        /\ \A n \in {b.total_sessions, b.total_catches, b.total_locations, b.released_count,
                     b.kept_count, b.total_weight_kg, b.total_hours} : n >= 0
        /\ (sessions_of_user(t.user_id) = {} /\ catches_of_user(t.user_id) = {}) =>
              /\ b.total_sessions = 0 /\ b.total_catches = 0
              /\ b.released_count = 0 /\ b.kept_count = 0
              /\ b.total_weight_kg = 0 /\ b.total_hours = 0

\* C14 where the overview is answered at all: the same, for the overviews
\* that are answered 200.
AnsweredOverviewBalanced ==
    \A t \in GoodTokens : \A last \in last_session_choices(t.user_id) :
        LET res == get_overview_stats(t, last)
            b == res.body
        IN
        res.status = 200 =>
            /\ b.kept_count + b.released_count = b.total_catches
            /\ \A n \in {b.total_sessions, b.total_catches, b.total_locations, b.released_count,
                         b.kept_count, b.total_weight_kg, b.total_hours} : n >= 0
            /\ (sessions_of_user(t.user_id) = {} /\ catches_of_user(t.user_id) = {}) =>
                  /\ b.total_sessions = 0 /\ b.total_catches = 0
                  /\ b.released_count = 0 /\ b.kept_count = 0
                  /\ b.total_weight_kg = 0 /\ b.total_hours = 0

(***************************************************************************)
(* The bait breakdown (C15, C16, C17).                                     *)
(***************************************************************************)
\* The user's catches with the bait b.
CatchesWithBait(me, b) == {c \in catches_of_user(me) : catches[c].bait_used = b}

\* The non-empty baits of the user's catches.
BaitsOf(me) ==
    {catches[c].bait_used : c \in catches_of_user(me)} \ {Null, Empty}

\* C15 as stated: a user with a catch whose bait is not empty is answered 200,
\* with for each bait an entry giving its count, its released count, kept =
\* count - released and success rate = count / total catches * 100.
BaitBreakdownAnswered ==
    \A t \in GoodTokens :
        BaitsOf(t.user_id) # {} =>
            LET res == get_bait_stats(t, 10) IN
            /\ res.status = 200
            /\ \A b \in BaitsOf(t.user_id) :
                \E e \in res.body.bait_stats :
                    /\ e.bait = b
                    /\ e.count = Cardinality(CatchesWithBait(t.user_id, b))
                    /\ e.released_count
                         = Cardinality({c \in CatchesWithBait(t.user_id, b) : catches[c].released})
                    /\ e.kept_count = e.count - e.released_count
                    /\ e.success_rate
                         = SuccessRate(e.count, Cardinality(catches_of_user(t.user_id)))

\* C16: a user without any catch is answered 200 by the bait breakdown,
\* whatever the limit, and every success rate in the answer is 0.
NoCatchesBaitBreakdown ==
    \A t \in GoodTokens, limit \in BaitLimits :
        catches_of_user(t.user_id) = {} =>
            LET res == get_bait_stats(t, limit) IN
            /\ res.status = 200
            /\ \A e \in res.body.bait_stats : e.success_rate = 0

\* A user without catches is answered 200 while another user has a catch with
\* a bait.
NoCatchesBaitBreakdownWitness ==
    \E t \in GoodTokens, o \in GoodTokens :
        /\ t.user_id \in DOMAIN users
        /\ catches_of_user(t.user_id) = {}
        /\ BaitsOf(o.user_id) # {}
        /\ get_bait_stats(t, 10).status = 200

\* C17 as stated: the bait breakdown answers with a collection of entries
\* whose counts sum to at most the user's number of catches.
BaitCountsWithinTotal ==
    \A t \in GoodTokens, limit \in BaitLimits :
        LET res == get_bait_stats(t, limit) IN
        /\ res.status = 200
        /\ IsFiniteSet(res.body.bait_stats)
        /\ SumOver([e \in res.body.bait_stats |-> e.count], res.body.bait_stats)
             <= Cardinality(catches_of_user(t.user_id))

(***************************************************************************)
(* The monthly breakdown (C18, C19): one user, sessions dated before,      *)
(* inside and after the trailing 365 days.                                 *)
(***************************************************************************)
\* datetime.now().date() at the time of the request.
Todays == {[year |-> 2024, month |-> 6, day |-> 15]}

\* 2023-06-10 is 371 days before 2024-06-15 and 2023-06-20 361 days before
\* it; 2024-07-01 is after it.
MonthlySessionPayloads ==
    {[location_id |-> Str(l), date |-> d,
      start_time |-> TimeText(20, 0), end_time |-> TimeText(23, 30)] :
        l \in LocationIds,
        d \in {DateText(2023, 6, 10), DateText(2023, 6, 20), DateText(2024, 3, 5),
               DateText(2024, 7, 1)}}

MonthlyCatchPayloads ==
    {[session_id |-> Str(x), species |-> Text("Bass"), weight_kg |-> Num(2)] :
        x \in StatsSessionIds}
    \cup {[session_id |-> Str(x), species |-> Text("Bass")] : x \in StatsSessionIds}

StatsGetMonthly(T) == \E t \in T, today \in Todays : InstallStats(get_monthly_stats(t, today))

NextMonthly ==
    \/ StatsRegister(DurationRegisterPayloads)
    \/ StatsCreateLocation(GoodTokens, StatsLocationPayloads)
    \/ StatsCreateSession(GoodTokens, MonthlySessionPayloads)
    \/ StatsDeleteSession(GoodTokens)
    \/ StatsCreateCatch(GoodTokens, MonthlyCatchPayloads)
    \/ StatsGetMonthly(GoodTokens)

SpecMonthly == Init /\ [][NextMonthly]_vars

\* The user's sessions of the month `month_str` dated within the 365 days up
\* to `today`.
SessionsInWindow(me, month_str, today) ==
    {x \in sessions_of_user(me) :
        /\ MonthStr(fishing_sessions[x].date) = month_str
        /\ ToOrdinal(fishing_sessions[x].date) >= ToOrdinal(today) - 365
        /\ ToOrdinal(fishing_sessions[x].date) <= ToOrdinal(today)}

\* The entries of an answered monthly breakdown.
MonthlyEntries(res) == {res.body.monthly_stats[i] : i \in DOMAIN res.body.monthly_stats}

\* C18 as stated: every entry of an answered monthly breakdown is the month of
\* a session dated within the 365 days up to now, and its sessions, minutes,
\* catches and weight are those of such sessions only.
MonthlyWithinWindow ==
    \A t \in GoodTokens, today \in Todays :
        LET res == get_monthly_stats(t, today) IN
        res.status = 200 =>
            \A e \in MonthlyEntries(res) :
                LET ss == SessionsInWindow(t.user_id, e.month, today)
                    cs == UNION {catches_of_session(x) : x \in ss}
                    weighed == {c \in cs : catches[c].weight_kg # Null}
                IN
                /\ ss # {}
                /\ e.sessions_count = Cardinality(ss)
                /\ e.total_minutes
                     = SumOver([x \in ss |-> fishing_sessions[x].duration_minutes], ss)
                /\ e.catches_count = Cardinality(cs)
                /\ e.total_weight_kg
                     = SumOver([c \in weighed |-> catches[c].weight_kg.n], weighed)

\* C18, the past: no session dated more than 365 days before now contributes
\* to an answered monthly breakdown.
MonthlyExcludesOlder ==
    \A t \in GoodTokens, today \in Todays :
        LET res == get_monthly_stats(t, today) IN
        res.status = 200 =>
            \A x \in sessions_of_user(t.user_id) :
                ToOrdinal(fishing_sessions[x].date) < ToOrdinal(today) - 365 =>
                    <<"fishing_sessions", x>> \notin res.rows

\* The months of an answered breakdown are strictly ascending, every month
\* with a session within the 365 days up to now has an entry, and an entry
\* whose sessions have no catch reports no catch and no weight.
MonthlyListed(t, today, res) ==
    LET list == res.body.monthly_stats IN
    /\ \A i \in DOMAIN list, j \in DOMAIN list :
          i < j => MonthStrLess(list[i].month, list[j].month)
    /\ \A x \in sessions_of_user(t.user_id) :
          SessionsInWindow(t.user_id, MonthStr(fishing_sessions[x].date), today) # {} =>
              \E e \in MonthlyEntries(res) : e.month = MonthStr(fishing_sessions[x].date)
    /\ \A e \in MonthlyEntries(res) :
          (\A x \in sessions_of_user(t.user_id) :
              MonthStr(fishing_sessions[x].date) = e.month => catches_of_session(x) = {})
            => e.catches_count = 0 /\ e.total_weight_kg = 0

\* C19 as stated: the monthly breakdown is answered, with each month once,
\* in strictly ascending order, an entry for every month in the window that
\* has a session or a catch, and zeros for the catches of a month without any.
MonthlyAscendingComplete ==
    \A t \in GoodTokens, today \in Todays :
        LET res == get_monthly_stats(t, today) IN
        res.status = 200 /\ MonthlyListed(t, today, res)

\* C19 on PostgreSQL: the same, where date_trunc exists.
MonthlyAscendingCompleteOnPostgres ==
    \A t \in GoodTokens, today \in Todays :
        LET res == get_monthly_stats(t, today) IN
        using_supabase => res.status = 200 /\ MonthlyListed(t, today, res)

(***************************************************************************)
(* The location breakdown (C20).                                           *)
(***************************************************************************)
\* The entry of the location l is the only one for it and counts l's sessions,
\* their catches and their minutes, each session once.
CountsEachSessionOnce(res, l) ==
    LET ss == sessions_of_location(l)
        minutes == SumOver([x \in ss |-> fishing_sessions[x].duration_minutes], ss)
    IN
    /\ Cardinality({e \in res.body.location_stats : e.location_id = l}) = 1
    /\ \A e \in res.body.location_stats :
          e.location_id = l =>
              /\ e.sessions_count = Cardinality(ss)
              /\ e.catches_count = Cardinality(UNION {catches_of_session(x) : x \in ss})
              /\ e.total_hours = IF minutes # 0 THEN HoursTenths(minutes) ELSE 0

\* C20 as stated: the location breakdown has exactly one entry for every
\* location of the user, sessions or not, giving the number of its sessions,
\* the number of their catches and the hours of those sessions, each
\* session's duration counted once however many catches it has.
LocationBreakdownCounts ==
    \A t \in GoodTokens :
        LET res == get_location_stats(t) IN
        /\ res.status = 200
        /\ \A e \in res.body.location_stats :
              e.location_id \in DOMAIN locations
              /\ locations[e.location_id].user_id = t.user_id
        /\ \A l \in DOMAIN locations :
              locations[l].user_id = t.user_id => CountsEachSessionOnce(res, l)

\* C20 for the locations none of whose sessions has two catches or more.
LocationBreakdownCountsSingleCatch ==
    \A t \in GoodTokens :
        LET res == get_location_stats(t) IN
        /\ res.status = 200
        /\ \A l \in DOMAIN locations :
              (/\ locations[l].user_id = t.user_id
               /\ \A x \in sessions_of_location(l) : Cardinality(catches_of_session(x)) <= 1)
                => CountsEachSessionOnce(res, l)

(***************************************************************************)
(* Creating a location (C21).                                              *)
(***************************************************************************)
\* The payload has a name that is a non-empty text and two numeric
\* coordinates.
WellFormedLocation(data) ==
    /\ Has(data, "name") /\ data.name.t = "str" /\ data.name.s # <<>>
    /\ Has(data, "latitude") /\ data.latitude.t = "num"
    /\ Has(data, "longitude") /\ data.longitude.t = "num"

\* The request is answered 201 and has stored the location it describes.
CreatedLocation(me, data, res) ==
    /\ res.status = 201
    /\ \E l \in DOMAIN res.db.locations \ DOMAIN locations :
          /\ res.db.locations[l].user_id = me
          /\ res.db.locations[l].name = data.name
          /\ res.db.locations[l].latitude = data.latitude
          /\ res.db.locations[l].longitude = data.longitude

\* C21 as stated: create_location creates the location and answers 201 for
\* every payload with a name the caller does not use yet and two numeric
\* coordinates, the coordinate 0 included.
CreateLocationAccepts ==
    \A t \in GoodTokens, data \in LocationCreatePayloads \cup ZeroCoordinatePayloads :
        (WellFormedLocation(data) /\ location_named(t.user_id, data.name) = {}) =>
            CreatedLocation(t.user_id, data, create_location(t, data))

\* C21 away from 0: the same for the payloads whose coordinates are both
\* different from 0.
CreateLocationAcceptsNonZero ==
    \A t \in GoodTokens, data \in LocationCreatePayloads \cup ZeroCoordinatePayloads :
        (/\ WellFormedLocation(data) /\ location_named(t.user_id, data.name) = {}
         /\ data.latitude.n # 0 /\ data.longitude.n # 0) =>
            CreatedLocation(t.user_id, data, create_location(t, data))

(***************************************************************************)
(* FishingSession.calculate_duration (C22).                                *)
(***************************************************************************)
\* The minutes the handlers compute inline for the row's date and times.
InlineDuration(row) == create_duration(row.date, row.start_time, row.end_time)

\* C22 as stated: for every stored session calculate_duration does not raise
\* and returns the minutes create_session and update_session compute inline
\* for the same date and times.
CalculateDurationAgrees ==
    \A x \in DOMAIN fishing_sessions :
        LET row == fishing_sessions[x]
            method == calculate_duration(row)
        IN
        /\ method.ok
        /\ InlineDuration(row).ok => method.val = InlineDuration(row).val
        /\ update_duration(row.date, row.start_time, row.end_time) = InlineDuration(row)

\* C22 for the sessions that end on the day they start (end not before start).
CalculateDurationAgreesSameDay ==
    \A x \in DOMAIN fishing_sessions :
        LET row == fishing_sessions[x]
            method == calculate_duration(row)
        IN
        ~Before(Combine(row.date, row.end_time), Combine(row.date, row.start_time)) =>
            /\ method.ok
            /\ method.val = InlineDuration(row).val
            /\ update_duration(row.date, row.start_time, row.end_time) = InlineDuration(row)

(***************************************************************************)
(* Concurrent requests on location names (C23): each request runs in its   *)
(* own worker with its own ORM session; between a request's query for a    *)
(* location of the same name and its commit other requests may commit.     *)
(***************************************************************************)
ConcurrentCreatePayloads ==
    {[name |-> Text(n), latitude |-> Num(1), longitude |-> Num(2)] : n \in {"Lake1", "Lake2"}}

ConcurrentRenamePayloads == {[name |-> Text(n)] : n \in {"Lake1", "Lake2"}}

\* A worker takes a create_location request through its checks.
BeginCreateLocation(T, P) ==
    \E r \in Requests, t \in T, data \in P :
        /\ inflight[r] = Idle
        /\ create_location_checked(t, data)
        /\ inflight' = [inflight EXCEPT ![r] =
                            [op |-> "create_location", user |-> t.user_id, data |-> data]]
        /\ UNCHANGED <<using_supabase, users, locations, fishing_sessions, catches, issued>>

\* The worker builds the row and commits.
FinishCreateLocation ==
    \E r \in Requests :
        /\ inflight[r].op = "create_location"
        /\ LET res == create_location_insert(inflight[r].user, inflight[r].data) IN
           /\ res.db.issued.locations <= MaxLocations
           /\ locations' = res.db.locations
           /\ issued' = res.db.issued
        /\ inflight' = [inflight EXCEPT ![r] = Idle]
        /\ UNCHANGED <<using_supabase, users, fishing_sessions, catches>>

\* A worker takes an update_location request through its checks.
BeginUpdateLocation(T, P) ==
    \E r \in Requests, t \in T, l \in LocationIds, data \in P :
        /\ inflight[r] = Idle
        /\ update_location_checked(t, l, data)
        /\ inflight' = [inflight EXCEPT ![r] =
                            [op |-> "update_location", user |-> t.user_id, data |-> data,
                             location_id |-> l, loaded |-> locations[l]]]
        /\ UNCHANGED <<using_supabase, users, locations, fishing_sessions, catches, issued>>

\* The worker assigns the fields and commits.
FinishUpdateLocation ==
    \E r \in Requests :
        /\ inflight[r].op = "update_location"
        /\ LET res == update_location_flush(inflight[r].location_id, inflight[r].loaded,
                                            inflight[r].data) IN
           /\ locations' = res.db.locations
           /\ issued' = res.db.issued
        /\ inflight' = [inflight EXCEPT ![r] = Idle]
        /\ UNCHANGED <<using_supabase, users, fishing_sessions, catches>>

NextConcurrent ==
    \/ Register(DurationRegisterPayloads)
    \/ BeginCreateLocation(GoodTokens, ConcurrentCreatePayloads)
    \/ FinishCreateLocation
    \/ BeginUpdateLocation(GoodTokens, ConcurrentRenamePayloads)
    \/ FinishUpdateLocation

SpecConcurrent == Init /\ [][NextConcurrent]_vars

\* C23 as stated: however the checks and commits of concurrent creates and
\* renames interleave, no user ever owns two locations of the same name (of
\* two concurrent requests for one name at most one succeeds).
ConcurrentNamesUnique ==
    \A u \in DOMAIN users :
        \A n \in {locations[l].name : l \in DOMAIN locations} :
            Cardinality(location_named(u, n)) <= 1

\* The two steps of a request taken together are the handler: a request that
\* passes its checks and commits at once does what create_location and
\* update_location do.
StepsMakeHandlers ==
    /\ \A t \in GoodTokens, data \in ConcurrentCreatePayloads :
          create_location_checked(t, data) =>
              create_location_insert(t.user_id, data) = create_location(t, data)
    /\ \A t \in GoodTokens, l \in LocationIds, data \in ConcurrentRenamePayloads :
          update_location_checked(t, l, data) =>
              update_location_flush(l, locations[l], data).db = update_location(t, l, data).db

(***************************************************************************)
(* The session of a catch (C24).                                           *)
(***************************************************************************)
\* The users that own the catch c: those owning the session it names.
OwnersOfCatch(c) ==
    {fishing_sessions[x].user_id :
        x \in {y \in DOMAIN fishing_sessions : catches[c].session_id = Str(y)}}

\* C24 as stated: every stored catch names an existing session, so it has
\* exactly one owner, and get_catch answers that owner 200 for it.
CatchSessionExists ==
    \A c \in DOMAIN catches :
        /\ \E x \in DOMAIN fishing_sessions : catches[c].session_id = Str(x)
        /\ Cardinality(OwnersOfCatch(c)) = 1
        /\ \A t \in GoodTokens :
              t.user_id \in OwnersOfCatch(c) => get_catch(t, c).status = 200

\* C24 where the foreign key is enforced: the same on PostgreSQL.
CatchSessionExistsOnPostgres ==
    using_supabase =>
        \A c \in DOMAIN catches :
            /\ \E x \in DOMAIN fishing_sessions : catches[c].session_id = Str(x)
            /\ Cardinality(OwnersOfCatch(c)) = 1
            /\ \A t \in GoodTokens :
                  t.user_id \in OwnersOfCatch(c) => get_catch(t, c).status = 200

(***************************************************************************)
(* Deleting a location its sessions have left (C25): one user; every        *)
(* session is created at the first location and can be moved to the second  *)
(* or deleted.                                                              *)
(***************************************************************************)
FirstLocation == <<"locations", 1>>
SecondLocation == <<"locations", 2>>

GuardLocationPayloads ==
    {[name |-> Text(n), latitude |-> Num(1), longitude |-> Num(2)] : n \in {"Lake1", "Lake2"}}

GuardSessionPayloads ==
    {[location_id |-> Str(FirstLocation), date |-> DateText(2024, 1, 1),
      start_time |-> TimeText(20, 0), end_time |-> TimeText(23, 30)]}

GuardMovePayloads == {[location_id |-> Str(SecondLocation)]}

GuardCatchPayloads ==
    {[session_id |-> Str(x), species |-> Text("Bass")] : x \in StatsSessionIds}

StatsGetLocation(T) == \E t \in T, l \in LocationIds : InstallStats(get_location(t, l))
StatsDeleteLocation(T) == \E t \in T, l \in LocationIds : InstallStats(delete_location(t, l))

NextGuard ==
    \/ StatsRegister(DurationRegisterPayloads)
    \/ StatsCreateLocation(GoodTokens, GuardLocationPayloads)
    \/ StatsGetLocation(GoodTokens)
    \/ StatsDeleteLocation(GoodTokens)
    \/ StatsCreateSession(GoodTokens, GuardSessionPayloads)
    \/ StatsUpdateSession(GoodTokens, GuardMovePayloads)
    \/ StatsDeleteSession(GoodTokens)
    \/ StatsCreateCatch(GoodTokens, GuardCatchPayloads)

SpecGuard == Init /\ [][NextGuard]_vars

\* C25: whatever sessions named it earlier, the owner's delete_location of a
\* location that no session names now is answered 200; after it get_location
\* answers 404 for the location and every session and catch is still stored.
DeleteAfterSessionsLeft ==
    [][\A t \in GoodTokens, l \in LocationIds :
        (find_location(t.user_id, l) # {} /\ sessions_of_location(l) = {}) =>
            /\ delete_location(t, l).status = 200
            /\ db' = delete_location(t, l).db =>
                  /\ get_location(t, l)'.status = 404
                  /\ fishing_sessions' = fishing_sessions
                  /\ catches' = catches]_vars

\* Two sessions were created at the first location; one has been deleted and
\* the other, which holds a catch, moved to the second location; the first
\* location has then been deleted, and the session and the catch are there.
DeleteAfterSessionsLeftWitness ==
    /\ issued.fishing_sessions = 2
    /\ FirstLocation \notin DOMAIN locations
    /\ \E x \in DOMAIN fishing_sessions :
          /\ DOMAIN fishing_sessions = {x}
          /\ fishing_sessions[x].location_id = Str(SecondLocation)
          /\ catches_of_session(x) # {}
    /\ \A t \in GoodTokens : get_location(t, FirstLocation).status = 404

====
